---- MODULE Spec2Model ----
(***************************************************************************)
(* Pharos query core (src-tauri/src): the running-query registry and the   *)
(* pool of state.rs / db/postgres.rs, execute_query and cancel_query of    *)
(* commands/query.rs, the commit engine (commit_data_edits, execute_update,*)
(* execute_delete) and the schema / identifier validators.                 *)
(*                                                                         *)
(* The specifications share the variables:                                 *)
(*   Spec          concurrent execute_query calls and one cancel_query     *)
(*   SpecSerial    one execute_query call at a time and one cancel_query   *)
(*   SpecCommit    one commit_data_edits call after the other on a table   *)
(*   SpecBuild     the statement built for one edit                        *)
(*   SpecIdent     the four name validators applied to bounded names       *)
(*   SpecQuote     the SQL text of execute_update / execute_delete         *)
(*   SpecSanitize  error messages on their way to the caller               *)
(*   SpecApi       the pool-backed operations with connect / disconnect    *)
(*   SpecRegistry  the running-query registry of state.rs                  *)
(*   SpecPaging    execute_query followed by fetch_more_rows               *)
(*   SpecEditable  check_query_editable on written statements              *)
(*   SpecDecode    extract_value on the cells of a row                     *)
(*   SpecValidate  validate_sql and its position translation               *)
(*   SpecInterval  the text of a decoded INTERVAL                          *)
(*   SpecArray     parse_pg_array_string on written array texts            *)
(*   SpecPools     connect, disconnect and delete on one connection id     *)
(***************************************************************************)
EXTENDS Integers, Sequences, FiniteSets, TLC

\* ------------------------------------------------------------------ bounds
\* execute_query calls started in one behaviour
MaxCalls == 2
\* cancel_query calls started in one behaviour
MaxCancels == 1
\* largest limit argument tried
MaxLimit == 1
\* most rows a statement's result holds
MaxRows == 2
\* edits of one commit request
MaxEdits == 2
\* commit_data_edits calls in one behaviour
MaxCommits == 2
\* characters of a name written out one by one (the rest is padding)
MaxHead == 2
\* characters of an identifier of a commit request
MaxIdent == 2
\* fragments a driver error message is put together from
MaxFragments == 2
\* turns of the password loop of sanitize_error that are followed
MaxIters == 2
\* calls of exposed operations in one behaviour of the pool lookup
MaxOps == 2
\* connect_postgres and disconnect_postgres calls in one behaviour
MaxToggles == 2
\* calls of registry operations in one behaviour
MaxRegCalls == 3
\* most rows of a statement read page by page
MaxPageRows == 3
\* largest page size (limit) tried
MaxPageSize == 2
\* pages read of one statement
MaxPages == 4
\* columns of a decoded row
MaxCols == 2
\* characters of a validated text
MaxSqlLen == 4
\* months and days of a decoded interval, either side of zero
MaxMonths == 14
MaxDays == 3
\* elements of a parsed array and pieces of an element
MaxElems == 2
MaxElemLen == 2
\* tasks that call the connection commands, and their calls in one behaviour
MaxPoolTasks == 2
MaxPoolCalls == 4

Min(a, b) == IF a <= b THEN a ELSE b

\* ------------------------------------------------------------- characters
\* A name is [head |-> sequence of one-character strings, pad |-> n]: the
\* characters of head followed by n copies of the letter "a".  The padding
\* lets a name be 63 or 64 bytes long without 64 enumerated characters.
AsciiLetters == {"a", "d", "e", "l", "o", "p", "r", "s"}
AsciiDigits == {"0", "2", "4"}
\* U+00E9, alphabetic and not ASCII: two bytes in UTF-8
EAcute == "e_acute"
UnicodeLetters == {EAcute}

is_ascii_alphabetic(c) == c \in AsciiLetters
is_ascii_alphanumeric(c) == c \in AsciiLetters \cup AsciiDigits
\* char::is_alphanumeric: the Unicode classes Alphabetic and Numeric
is_alphanumeric(c) == c \in AsciiLetters \cup AsciiDigits \cup UnicodeLetters

\* str::len is the length in bytes
Utf8Len(c) == IF c \in UnicodeLetters THEN 2 ELSE 1

RECURSIVE HeadBytes(_)
HeadBytes(h) == IF h = <<>> THEN 0 ELSE Utf8Len(Head(h)) + HeadBytes(Tail(h))

ByteLen(name) == HeadBytes(name.head) + name.pad
NameChars(name) ==
    {name.head[i] : i \in 1..Len(name.head)} \cup (IF name.pad > 0 THEN {"a"} ELSE {})
NameIsEmpty(name) == name.head = <<>> /\ name.pad = 0
FirstChar(name) == IF name.head # <<>> THEN name.head[1] ELSE "a"

\* schema_name.chars().all(ascii alphanumeric, '_' or '-')
SchemaCharsOk(name) ==
    \A c \in NameChars(name) : is_ascii_alphanumeric(c) \/ c = "_" \/ c = "-"

\* execute_query's check of its schema argument (query.rs:63-68): "ok" or the error
ExecuteSchemaCheck(name) ==
    IF ~SchemaCharsOk(name) THEN "InvalidSchemaChars"
    ELSE IF NameIsEmpty(name) \/ ByteLen(name) > 63 THEN "InvalidSchemaLength"
    ELSE "ok"

\* fetch_more_rows' check of its schema argument (query.rs:675-680)
FetchMoreSchemaCheck(name) ==
    IF ~SchemaCharsOk(name) THEN "InvalidSchemaChars"
    ELSE IF NameIsEmpty(name) \/ ByteLen(name) > 63 THEN "InvalidSchemaLength"
    ELSE "ok"

\* validate_sql's check of its schema argument (query.rs:896-898): the Unicode
\* test of the characters, and no test of the length
ValidateSqlSchemaCheck(name) ==
    IF \A c \in NameChars(name) : is_alphanumeric(c) \/ c = "_" \/ c = "-"
    THEN "ok" ELSE "InvalidSchemaChars"

\* validate_identifier (table.rs:564-586)
validate_identifier(name) ==
    IF NameIsEmpty(name) THEN "Empty"
    ELSE IF ByteLen(name) > 63 THEN "TooLong"
    ELSE IF ~is_ascii_alphabetic(FirstChar(name))
            /\ FirstChar(name) # "_" /\ FirstChar(name) # "-" THEN "InvalidStart"
    ELSE IF ~SchemaCharsOk(name) THEN "InvalidChars"
    ELSE "ok"

\* the names tried: every head over these characters, alone and padded to a
\* length around the limit of 63
IdentChars == {"a", "2", "_", "-", ";", EAcute}
Pads == {0, 61, 62, 63}
RECURSIVE Heads(_)
Heads(n) == IF n = 0 THEN {<<>>}
            ELSE Heads(n - 1) \cup {Append(h, c) : h \in Heads(n - 1), c \in IdentChars}
Names == {[head |-> h, pad |-> k] : h \in Heads(MaxHead), k \in Pads}


\* ------------------------------------------------------------------ state
VARIABLES
    connections,      \* AppState.connections: the connection ids that have a pool
    conns,            \* the pool's connections: lessee, search_path, pending cancel
    running_queries,  \* AppState.running_queries: query id -> RunningQuery or NoEntry
    flags,            \* the Arc<AtomicBool> cells created by register_query, by index
    ex,               \* each execute_query task: position, arguments, locals, result
    calls,            \* execute_query calls started
    cn,               \* the cancel_query task
    cancels,          \* cancel_query calls started
    table,            \* the backend table as committed
    txn,              \* the open transaction's view of the table, or NoTx
    cm,               \* the commit_data_edits task
    commits,          \* commit_data_edits calls started
    bw,               \* an edit, a primary-key list and the statement built for them
    idn,              \* the name under validation and the validators' verdicts
    qs,               \* the identifiers of a commit request and the SQL text built
    se,               \* a driver error on its way to the caller of an operation
    api,              \* the task of an exposed operation, and the calls made so far
    rg,               \* the last call of a registry operation
    pg,               \* a statement read page by page: its result, the page size, the pages
    ed,               \* a statement, the table it names and the editability verdict
    dc,               \* a result row: its cells, the values decoded and the row object
    vl,               \* a validated text: the call, the backend's answer and the result
    iv,               \* a decoded INTERVAL cell and its text
    ar,               \* a parsed array text: the elements written, the body and the elements read
    pl                \* the pools created for one connection id and the commands on it

execVars == <<connections, conns, running_queries, flags, ex, calls, cn, cancels>>
commitVars == <<table, txn, cm, commits>>
buildVars == <<bw>>
identVars == <<idn>>
fnVars == <<qs, se, api, rg, pg, ed, dc, vl, iv, ar, pl>>
vars == <<execVars, commitVars, buildVars, identVars, fnVars>>

\* ------------------------------------------------- execute_query: the data
\* Tasks are numbered from 1, flags and pool connections too: 0 stands for
\* "no task", "no flag", "no connection".  An Option is <<>> or <<value>>.
\* The arguments of a call are drawn where the code first reads them.
\* the execute_query tasks that may run concurrently
Procs == {1, 2}
\* the pool's connections: create_pool's max_connections(5), scaled down to 2
PoolConns == {1, 2}
ConnIds == {"c1", "c9"}
QueryIds == {"q1", "q2"}
DefaultPath == <<>>

Chars(s) == [head |-> s, pad |-> 0]
Sales2024 == Chars(<<"s", "a", "l", "e", "s", "-", "2", "0", "2", "4">>)
SalesDrop == Chars(<<"s", "a", "l", "e", "s", ";", "d", "r", "o", "p">>)
SchemaArgs == {<<>>, <<Sales2024>>, <<SalesDrop>>}

\* the backend PID of a pool connection
BackendPid(c) == 100 + c

NoResult == [kind |-> "none", rows |-> <<>>, row_count |-> 0, has_more |-> FALSE]
Err(k) == [kind |-> k, rows |-> <<>>, row_count |-> 0, has_more |-> FALSE]

IdleExec ==
    [pc |-> "idle", connection_id |-> "c1", query_id |-> "q1", limit |-> 0,
     schema |-> <<>>, avail |-> 0, conn |-> 0, flag |-> 0, rows |-> 0,
     result |-> NoResult,
     \* history of the call, read by the properties only
     leased |-> FALSE, stmts |-> 0, registered |-> FALSE, unregs |-> 0,
     streamed |-> FALSE, earlyCancel |-> FALSE]

IdleCancel ==
    [pc |-> "idle", connection_id |-> "c1", query_id |-> "q1", backend_pid |-> 0,
     result |-> "none", marked |-> FALSE, sent |-> FALSE]

FreeConn == [lessee |-> 0, search_path |-> DefaultPath, cancelReq |-> FALSE]

\* ------------------------------------------------------ AppState (state.rs)
\* (mutant) a pool is handed out whether or not one is registered
get_pool_Any(connection_id) == TRUE
get_pool(connection_id) == connection_id \in connections

\* register_query: the entry inserted under query_id (replacing any entry there);
\* flag is the index of the fresh Arc<AtomicBool> the caller keeps
register_query(rq, query_id, backend_pid, flag) ==
    [q \in DOMAIN rq \cup {query_id} |->
        IF q = query_id THEN [backend_pid |-> backend_pid, cancelled |-> flag]
        ELSE rq[q]]

\* (mutant) the whole registry is emptied
unregister_query_Clear(rq, query_id) == <<>>
unregister_query(rq, query_id) == [q \in DOMAIN rq \ {query_id} |-> rq[q]]

get_query_backend_pid(rq, query_id) ==
    IF query_id \in DOMAIN rq THEN <<rq[query_id].backend_pid>> ELSE <<>>

\* (mutant) the flag of every query is set
mark_query_cancelled_All(rq, fl, query_id) == [f \in DOMAIN fl |-> TRUE]
\* mark_query_cancelled: the flags after the call
mark_query_cancelled(rq, fl, query_id) ==
    IF query_id \in DOMAIN rq THEN [fl EXCEPT ![rq[query_id].cancelled] = TRUE]
    ELSE fl

\* ------------------------------------------------ the pool (db/postgres.rs)
IdleConns == {c \in PoolConns : conns[c].lessee = 0}

\* pool.acquire(): the connection is leased to task t
Lease(cs, c, t) == [cs EXCEPT ![c].lessee = t]
\* PoolConnection dropped: back to the pool, its session state kept
Release(cs, c) == [cs EXCEPT ![c].lessee = 0, ![c].cancelReq = FALSE]

\* ---------------------------------------------- execute_query (query.rs)
\* has_more and row_limit of the result (query.rs:136-137)
HasMore(len, limit) == len > limit
\* (mutant) every row received is returned, the lookahead row too
RowLimit_All(len, limit) == len
RowLimit(len, limit) == Min(len, limit)

\* rows 1..n of the backend's result, in order
FirstRows(n) == [i \in 1..n |-> i]

\* the Ok result built from the rows kept (query.rs:112-201)
OkResult(len, limit) ==
    IF len = 0 THEN [kind |-> "Ok", rows |-> <<>>, row_count |-> 0, has_more |-> FALSE]
    ELSE [kind |-> "Ok", rows |-> FirstRows(RowLimit(len, limit)),
          row_count |-> RowLimit(len, limit), has_more |-> HasMore(len, limit)]

\* the call returns r: every local is dropped, the leased connection with them
Return(p, e, r) ==
    /\ ex' = [ex EXCEPT ![p] = [e EXCEPT !.pc = "done", !.result = r]]
    /\ conns' = IF e.conn = 0 THEN conns ELSE Release(conns, e.conn)

\* execute_query is called: get_pool (query.rs:38-44)
ExecStart(p) ==
    /\ ex[p].pc = "idle"
    /\ calls < MaxCalls
    /\ calls' = calls + 1
    /\ \E cid \in ConnIds :
         LET e == [IdleExec EXCEPT !.connection_id = cid]
         IN IF get_pool(cid)
            THEN ex' = [ex EXCEPT ![p] = [e EXCEPT !.pc = "acquire"]] /\ conns' = conns
            ELSE Return(p, e, Err("NotConnected"))
    /\ UNCHANGED <<connections, running_queries, flags, cn, cancels>>
    /\ UNCHANGED <<commitVars, buildVars, identVars, fnVars>>

\* pool.acquire().await (query.rs:48): a free connection is leased; with none
\* free the call waits, and fails once acquire_timeout has passed
ExecAcquire(p) ==
    /\ ex[p].pc = "acquire"
    /\ \/ \E c \in IdleConns :
            /\ conns' = Lease(conns, c, p)
            /\ ex' = [ex EXCEPT ![p].pc = "backend_pid", ![p].conn = c,
                                ![p].leased = TRUE]
       \/ IdleConns = {} /\ Return(p, ex[p], Err("PoolTimedOut"))
    /\ UNCHANGED <<connections, running_queries, flags, calls, cn, cancels>>
    /\ UNCHANGED <<commitVars, buildVars, identVars, fnVars>>

\* whether a statement sent on connection c can succeed (TRUE) or fail (FALSE):
\* a statement that pg_cancel_backend hit fails
StatementOutcomes(c) == IF conns[c].cancelReq THEN {FALSE} ELSE BOOLEAN

\* the schema branch of execute_query, run right after register_query
\* (query.rs:59-76): where the call goes next, or the error it returns
SchemaStep(schema) ==
    IF schema = <<>> THEN "stream"
    ELSE IF ExecuteSchemaCheck(schema[1]) # "ok" THEN "InvalidSchema"
    ELSE "set_schema"

\* SELECT pg_backend_pid() answers (query.rs:51-57), register_query, and the
\* validation of the schema argument (query.rs:59-68)
ExecBackendPid(p) ==
    /\ ex[p].pc = "backend_pid"
    /\ \E ok \in StatementOutcomes(ex[p].conn), qid \in QueryIds, sch \in SchemaArgs :
         LET e == [ex[p] EXCEPT !.stmts = @ + 1, !.query_id = qid, !.schema = sch] IN
         IF ~ok THEN
            /\ Return(p, e, Err("BackendPidError"))
            /\ UNCHANGED <<running_queries, flags>>
         ELSE
            LET f == Len(flags) + 1
                r == [e EXCEPT !.flag = f, !.registered = TRUE]
                next == SchemaStep(e.schema)
            IN /\ flags' = Append(flags, FALSE)
               /\ running_queries' =
                     register_query(running_queries, e.query_id, BackendPid(e.conn), f)
               /\ IF next = "InvalidSchema"
                  THEN Return(p, r, Err("InvalidSchema"))
                  ELSE ex' = [ex EXCEPT ![p] = [r EXCEPT !.pc = next]] /\ conns' = conns
    /\ UNCHANGED <<connections, calls, cn, cancels>>
    /\ UNCHANGED <<commitVars, buildVars, identVars, fnVars>>

\* SET search_path TO "<schema>", public on the leased connection (query.rs:70-75)
ExecSetSchema(p) ==
    /\ ex[p].pc = "set_schema"
    /\ \E ok \in StatementOutcomes(ex[p].conn) :
         LET e == [ex[p] EXCEPT !.stmts = @ + 1] IN
         IF ok
         THEN /\ ex' = [ex EXCEPT ![p] = [e EXCEPT !.pc = "stream"]]
              /\ conns' = [conns EXCEPT ![e.conn].search_path = e.schema]
         ELSE Return(p, e, Err("SetSchemaError"))
    /\ UNCHANGED <<connections, running_queries, flags, calls, cn, cancels>>
    /\ UNCHANGED <<commitVars, buildVars, identVars, fnVars>>

\* what stream.next().await can yield: the next row, the end of the result, or
\* a backend error; a statement cancelled on the backend yields the error
StreamItems(e) ==
    IF conns[e.conn].cancelReq THEN {"err"}
    ELSE {"err"} \cup (IF e.rows < e.avail THEN {"row"} ELSE {"end"})

\* the call with its limit and the statement's result (its avail rows), which
\* are fixed when the stream is opened (query.rs:79-80)
StreamArgs(e) ==
    IF e.streamed THEN {e}
    ELSE {[e EXCEPT !.limit = lim, !.avail = n] : lim \in 0..MaxLimit, n \in 0..MaxRows}

\* after the loop (query.rs:105-201): unregister, then the error or the result
AfterLoop(p, e, fetch_error) ==
    /\ running_queries' = unregister_query(running_queries, e.query_id)
    /\ Return(p, [e EXCEPT !.unregs = @ + 1],
              IF fetch_error THEN Err("FetchError") ELSE OkResult(e.rows, e.limit))

\* one turn of the while-let loop (query.rs:79-103), with what follows the
\* loop when this turn leaves it
ExecStreamNext(p) ==
    /\ ex[p].pc = "stream"
    /\ \E a \in StreamArgs(ex[p]) : \E item \in StreamItems(a) :
         LET e == [a EXCEPT
                     !.stmts = IF a.streamed THEN @ ELSE @ + 1,
                     !.streamed = TRUE,
                     !.earlyCancel = IF a.streamed THEN @ ELSE flags[a.flag]]
         IN
         IF item = "end" THEN AfterLoop(p, e, FALSE)
         ELSE IF flags[e.flag] THEN
            /\ running_queries' = unregister_query(running_queries, e.query_id)
            /\ Return(p, [e EXCEPT !.unregs = @ + 1], Err("Cancelled"))
         ELSE IF item = "err" THEN AfterLoop(p, e, TRUE)
         ELSE LET r == [e EXCEPT !.rows = @ + 1] IN
              IF r.rows > r.limit THEN AfterLoop(p, r, FALSE)
              ELSE ex' = [ex EXCEPT ![p] = r] /\ UNCHANGED <<running_queries, conns>>
    /\ UNCHANGED <<connections, flags, calls, cn, cancels>>
    /\ UNCHANGED <<commitVars, buildVars, identVars, fnVars>>

\* the caller has the result; the task can run the next call
ExecReturn(p) ==
    /\ ex[p].pc = "done"
    /\ ex' = [ex EXCEPT ![p] = IdleExec]
    /\ UNCHANGED <<connections, conns, running_queries, flags, calls, cn, cancels>>
    /\ UNCHANGED <<commitVars, buildVars, identVars, fnVars>>


\* ------------------------------------------------ cancel_query (query.rs)
\* the task number under which cancel_query leases a connection
CancelTask == Cardinality(Procs) + 1

CancelDone(c, r) == cn' = [c EXCEPT !.pc = "done", !.result = r]

\* cancel_query is called: get_pool (query.rs:828-830)
CancelStart ==
    /\ cn.pc = "idle"
    /\ cancels < MaxCancels
    /\ cancels' = cancels + 1
    /\ \E cid \in ConnIds, qid \in QueryIds :
         LET c == [IdleCancel EXCEPT !.connection_id = cid, !.query_id = qid]
         IN IF get_pool(cid) THEN cn' = [c EXCEPT !.pc = "get_pid"]
            ELSE CancelDone(c, "NotConnected")
    /\ UNCHANGED <<connections, conns, running_queries, flags, ex, calls>>
    /\ UNCHANGED <<commitVars, buildVars, identVars, fnVars>>

\* get_query_backend_pid (query.rs:833-835)
CancelGetPid ==
    /\ cn.pc = "get_pid"
    /\ LET pid == get_query_backend_pid(running_queries, cn.query_id)
       IN IF pid = <<>> THEN CancelDone(cn, "QueryNotFound")
          ELSE cn' = [cn EXCEPT !.pc = "mark", !.backend_pid = pid[1]]
    /\ UNCHANGED <<connections, conns, running_queries, flags, ex, calls, cancels>>
    /\ UNCHANGED <<commitVars, buildVars, identVars, fnVars>>

\* mark_query_cancelled (query.rs:838); its bool is not read
CancelMark ==
    /\ cn.pc = "mark"
    /\ flags' = mark_query_cancelled(running_queries, flags, cn.query_id)
    /\ cn' = [cn EXCEPT !.pc = "acquire", !.marked = TRUE]
    /\ UNCHANGED <<connections, conns, running_queries, ex, calls, cancels>>
    /\ UNCHANGED <<commitVars, buildVars, identVars, fnVars>>

\* the connections from which cancel_query can send its request: fetch_one(&pool)
\* takes a connection of the query pool (query.rs:841-843)
CancelCarriers == IdleConns

\* fetch_one(&pool) gets its connection, or gives up after acquire_timeout
CancelAcquire ==
    /\ cn.pc = "acquire"
    /\ \/ \E c \in CancelCarriers :
            /\ conns' = Lease(conns, c, CancelTask)
            /\ cn' = [cn EXCEPT !.pc = "send"]
       \/ /\ CancelCarriers = {}
          /\ CancelDone(cn, "PoolTimedOut")
          /\ conns' = conns
    /\ UNCHANGED <<connections, running_queries, flags, ex, calls, cancels>>
    /\ UNCHANGED <<commitVars, buildVars, identVars, fnVars>>

\* the pool connections whose backend runs a statement that pid's cancel can hit
Busy(pid) ==
    {c \in PoolConns : /\ BackendPid(c) = pid
                       /\ conns[c].lessee \in Procs
                       /\ ex[conns[c].lessee].pc \in {"backend_pid", "set_schema", "stream"}}

\* SELECT pg_cancel_backend($1) runs and the connection goes back to the pool
\* (query.rs:841-847); the signal hits the statement the backend is running, or
\* comes too late for it
CancelSend ==
    /\ cn.pc = "send"
    /\ \E ok \in BOOLEAN, hit \in BOOLEAN :
         LET mine == CHOOSE c \in PoolConns : conns[c].lessee = CancelTask
             back == Release(conns, mine)
         IN IF ok
            THEN /\ conns' = [c \in PoolConns |->
                                IF hit /\ c \in Busy(cn.backend_pid)
                                THEN [back[c] EXCEPT !.cancelReq = TRUE] ELSE back[c]]
                 /\ CancelDone([cn EXCEPT !.sent = TRUE], "Ok")
            ELSE /\ conns' = back
                 /\ CancelDone(cn, "BackendError")
    /\ UNCHANGED <<connections, running_queries, flags, ex, calls, cancels>>
    /\ UNCHANGED <<commitVars, buildVars, identVars, fnVars>>

CancelReturn ==
    /\ cn.pc = "done"
    /\ cn' = IdleCancel
    /\ UNCHANGED <<connections, conns, running_queries, flags, ex, calls, cancels>>
    /\ UNCHANGED <<commitVars, buildVars, identVars, fnVars>>

\* ----------------------------------------- the commit engine: the data
\* The backend table has an integer primary key "id" and a nullable integer "v".
\* A cell is <<>> (SQL NULL) or <<n>>.
Cols == <<"id", "v">>
ColSet == {"id", "v"}
Row(i, v) == [id |-> i, v |-> v]
InitialTable == {Row(<<1>>, <<1>>), Row(<<2>>, <<>>)}

\* JSON values of a request: null and numbers, kept with their JSON text
JNull == [kind |-> "null", text |-> "null"]
JNum(t) == [kind |-> "number", text |-> t]
JVals == {JNull, JNum("1"), JNum("2")}
is_null(v) == v.kind = "null"

\* json_value_to_sql_param (query.rs:1362-1370): the text bound for a value
json_value_to_sql_param(v) == IF v.kind = "null" THEN "" ELSE v.text

\* the backend's cast of a bound text to the column's integer type
CastOk(t) == t \in {"1", "2"}
Cast(t) == IF t = "1" THEN <<1>> ELSE <<2>>

\* a JSON object is <<f>>, f a function from its keys to values; <<>> is a JSON
\* value that is no object (as_object() gives None)
JObjects == {<<f>> : f \in UNION {[S -> JVals] : S \in SUBSET ColSet}}
JDocs == JObjects \cup {<<>>}
EmptyObject == CHOOSE o \in JObjects : DOMAIN o[1] = {}

\* changes is read by execute_update alone
Edits ==
    [edit_type : {"update"}, changes : JDocs, original_row : JDocs]
    \cup [edit_type : {"delete", "insert"}, changes : {EmptyObject}, original_row : JDocs]

\* the edits of the commit requests of SpecCommit: every edit type, changes and
\* original rows that are no object, lack a key or hold a null, and changes
\* that move a row to another key
RequestValues(col, docs) ==
    {d \in docs : d # <<>> => \A c \in DOMAIN d[1] : c = "id" \/ d[1][c] # JNum(col)}
RequestEdits ==
    {e \in Edits : /\ e.changes \in RequestValues("1", JDocs)
                   /\ e.original_row \in RequestValues("2", JDocs)
                   /\ e.edit_type = "insert" => e.original_row = <<>>}

\* primary_keys of a request: what the analyzer reports, and lists a client can send
PrimaryKeyLists == {<<"id">>, <<"id", "v">>, <<>>}

\* the keys of a JSON object in the order the map iterates them
RECURSIVE KeysIn(_, _)
KeysIn(obj, cols) ==
    IF cols = <<>> THEN <<>>
    ELSE (IF Head(cols) \in DOMAIN obj THEN <<Head(cols)>> ELSE <<>>)
         \o KeysIn(obj, Tail(cols))

\* ------------------------------- execute_update / execute_delete (query.rs)
\* A clause part is [col, null, param]: "col" = NULL / "col" IS NULL when null,
\* else "col" = $param.  Building stops at the first primary key the original
\* row lacks.
NullPart(c) == [col |-> c, null |-> TRUE, param |-> 0]
\* (mutant) every placeholder is $1
ParamPart_First(c, n) == [col |-> c, null |-> FALSE, param |-> 1]
ParamPart(c, n) == [col |-> c, null |-> FALSE, param |-> n]

\* the SET clause and its parameters (query.rs:1275-1288)
RECURSIVE BuildSet(_, _, _)
BuildSet(changes, keys, acc) ==
    IF keys = <<>> THEN acc
    ELSE LET col == Head(keys)
             val == changes[col]
         IN BuildSet(changes, Tail(keys),
                IF is_null(val)
                THEN [acc EXCEPT !.parts = Append(@, NullPart(col))]
                ELSE [parts |-> Append(acc.parts, ParamPart(col, Len(acc.params) + 1)),
                      params |-> Append(acc.params, json_value_to_sql_param(val))])

\* (mutant) the row is located by its new values where the edit changes them
LocatorRow_Edited(changes, original) ==
    [c \in DOMAIN original |-> IF c \in DOMAIN changes THEN changes[c] ELSE original[c]]
\* the row whose primary-key values locate the row to change (query.rs:1293)
LocatorRow(changes, original) == original

\* the WHERE clause and its parameters (query.rs:1290-1302, 1331-1345); acc goes
\* on from the SET clause's parameters; missing is the key not found, if any
RECURSIVE BuildWhere(_, _, _)
BuildWhere(row, pks, acc) ==
    IF pks = <<>> \/ acc.missing # <<>> THEN acc
    ELSE LET pk == Head(pks) IN
         IF pk \notin DOMAIN row THEN [acc EXCEPT !.missing = <<pk>>]
         ELSE BuildWhere(row, Tail(pks),
                IF is_null(row[pk])
                THEN [acc EXCEPT !.parts = Append(@, NullPart(pk))]
                ELSE [acc EXCEPT !.parts = Append(@, ParamPart(pk, Len(acc.params) + 1)),
                                 !.params = Append(@, json_value_to_sql_param(row[pk]))])

NoStmt == [kind |-> "none", set |-> <<>>, where |-> <<>>, params |-> <<>>]
ClientError(e) == [error |-> e, stmt |-> NoStmt]
Built(k, set, where, params) ==
    [error |-> "", stmt |-> [kind |-> k, set |-> set, where |-> where, params |-> params]]

\* execute_update up to the statement it sends (query.rs:1266-1315)
BuildUpdate(primary_keys, edit) ==
    IF edit.changes = <<>> THEN ClientError("Invalid changes format")
    ELSE IF edit.original_row = <<>> THEN ClientError("Invalid original_row format")
    ELSE IF DOMAIN edit.changes[1] = {} THEN Built("skip", <<>>, <<>>, <<>>)
    ELSE LET changes == edit.changes[1]
             set == BuildSet(changes, KeysIn(changes, Cols), [parts |-> <<>>, params |-> <<>>])
             w == BuildWhere(LocatorRow(changes, edit.original_row[1]), primary_keys,
                             [parts |-> <<>>, params |-> set.params, missing |-> <<>>])
         IN IF w.missing # <<>> THEN ClientError("Primary key not found in original row")
            ELSE Built("UPDATE", set.parts, w.parts, w.params)

\* execute_delete up to the statement it sends (query.rs:1328-1356)
BuildDelete(primary_keys, edit) ==
    IF edit.original_row = <<>> THEN ClientError("Invalid original_row format")
    ELSE LET w == BuildWhere(edit.original_row[1], primary_keys,
                             [parts |-> <<>>, params |-> <<>>, missing |-> <<>>])
         IN IF w.missing # <<>> THEN ClientError("Primary key not found in original row")
            ELSE Built("DELETE", <<>>, w.parts, w.params)

\* the match on edit_type in commit_data_edits (query.rs:1212-1232)
BuildEdit(primary_keys, edit) ==
    IF edit.edit_type = "update" THEN BuildUpdate(primary_keys, edit)
    ELSE IF edit.edit_type = "delete" THEN BuildDelete(primary_keys, edit)
    ELSE ClientError("Unknown edit type")

\* ------------------------------------------- the backend running a statement
PartsOf(stmt) == {stmt.set[k] : k \in 1..Len(stmt.set)}
                   \cup {stmt.where[k] : k \in 1..Len(stmt.where)}

\* a statement with an empty WHERE (no primary key) or a text that does not cast
\* is rejected
Rejected(stmt) ==
    \/ stmt.where = <<>>
    \/ \E part \in PartsOf(stmt) : ~part.null /\ ~CastOk(stmt.params[part.param])

Satisfies(row, stmt) ==
    \A k \in 1..Len(stmt.where) :
        LET part == stmt.where[k] IN
        IF part.null THEN row[part.col] = <<>>
        ELSE row[part.col] = Cast(stmt.params[part.param])

Matched(tbl, stmt) == {row \in tbl : Satisfies(row, stmt)}

RECURSIVE Assign(_, _, _)
Assign(row, stmt, k) ==
    IF k > Len(stmt.set) THEN row
    ELSE LET part == stmt.set[k] IN
         Assign([row EXCEPT ![part.col] =
                    IF part.null THEN <<>> ELSE Cast(stmt.params[part.param])],
                stmt, k + 1)

\* the rows after the statement, duplicates of a key kept apart by their source
Updated(tbl, stmt) ==
    {<<row, IF Satisfies(row, stmt) /\ stmt.kind = "UPDATE"
            THEN Assign(row, stmt, 1) ELSE row>> :
        row \in IF stmt.kind = "DELETE" THEN tbl \ Matched(tbl, stmt) ELSE tbl}

\* the primary-key constraint of the table: id is not null and unique
Violates(pairs) ==
    \/ \E x \in pairs : x[2].id = <<>>
    \/ \E x, y \in pairs : x[1] # y[1] /\ x[2].id = y[2].id

\* the backend's answer to a statement on table tbl
RunStatement(tbl, stmt) ==
    IF Rejected(stmt) \/ Violates(Updated(tbl, stmt))
    THEN [ok |-> FALSE, tbl |-> tbl, affected |-> 0]
    ELSE [ok |-> TRUE, tbl |-> {x[2] : x \in Updated(tbl, stmt)},
          affected |-> Cardinality(Matched(tbl, stmt))]

\* the table a statement sees on the connection: the open transaction's, or
\* the committed one (autocommit)
View == IF txn = <<>> THEN table ELSE txn[1]

\* the end of a transaction on the backend: COMMIT makes its view the table,
\* ROLLBACK (or the loss of the connection) drops it
EndTransaction(op, ok) ==
    /\ table' = IF op = "COMMIT" /\ ok /\ txn # <<>> THEN txn[1] ELSE table
    /\ txn' = <<>>

\* ------------------------------------------- commit_data_edits (query.rs)
NoOutcome == [kind |-> "none", success |-> FALSE, rows_affected |-> 0, errors |-> <<>>]
CallError(e) == [kind |-> e, success |-> FALSE, rows_affected |-> 0, errors |-> <<>>]

IdleCommit ==
    [pc |-> "idle", primary_keys |-> <<>>, n |-> 0, i |-> 0, total_affected |-> 0,
     errors |-> <<>>, result |-> NoOutcome,
     \* history of the call, read by the properties only
     log |-> <<>>, before |-> {}]

Logged(c, op, ok, affected) ==
    [c EXCEPT !.log = Append(@, [op |-> op, edit |-> c.i, ok |-> ok, affected |-> affected])]

\* (mutant) the count of the last statement replaces the total
Accumulate_Last(total, affected) == affected
\* total_affected += affected (query.rs:1235)
Accumulate(total, affected) == total + affected

\* (mutant) the work done so far is committed when an edit fails
OnErrorStatement_Commit == "COMMIT"
\* the statement sent when an edit fails (query.rs:1239)
OnErrorStatement == "ROLLBACK"

\* (mutant) the loop goes on to the next edit after a failure
AfterError_Continue == "edits"
\* where the call goes after that statement: it returns (query.rs:1240-1244)
AfterError == "done"

\* the CommitEditsResult of a failed edit (query.rs:1240-1244)
FailedResult(errors) ==
    [kind |-> "Ok", success |-> FALSE, rows_affected |-> 0, errors |-> errors]

\* the CommitEditsResult after COMMIT (query.rs:1252-1256)
CommittedResult(total, errors) ==
    [kind |-> "Ok", success |-> TRUE, rows_affected |-> total, errors |-> errors]

\* the position after edit number i of n went through
AfterEdit(i, n) == IF i >= n THEN "commit" ELSE "edits"

\* commit_data_edits is called: get_pool, pool.acquire() (query.rs:1200-1206)
CommitStart ==
    /\ cm.pc = "idle"
    /\ commits < MaxCommits
    /\ commits' = commits + 1
    /\ \E cid \in ConnIds, pks \in PrimaryKeyLists, n \in 0..MaxEdits, ok \in BOOLEAN :
         LET c == [IdleCommit EXCEPT !.primary_keys = pks, !.n = n, !.before = table]
         IN cm' = IF ~get_pool(cid)
                  THEN [c EXCEPT !.pc = "done", !.result = CallError("NotConnected")]
                  ELSE IF ~ok
                  THEN [c EXCEPT !.pc = "done", !.result = CallError("AcquireError")]
                  ELSE [c EXCEPT !.pc = "begin"]
    /\ UNCHANGED <<table, txn>>
    /\ UNCHANGED <<execVars, buildVars, identVars, fnVars>>

\* BEGIN (query.rs:1209)
CommitBegin ==
    /\ cm.pc = "begin"
    /\ \E ok \in BOOLEAN :
         IF ok
         THEN /\ txn' = <<table>>
              /\ cm' = [Logged(cm, "BEGIN", TRUE, 0) EXCEPT !.pc = AfterEdit(0, cm.n)]
         ELSE /\ txn' = txn
              /\ cm' = [Logged(cm, "BEGIN", FALSE, 0) EXCEPT
                          !.pc = "done", !.result = CallError("BeginError")]
    /\ UNCHANGED <<table, commits>>
    /\ UNCHANGED <<execVars, buildVars, identVars, fnVars>>

\* the edit failed with message e (query.rs:1236-1245): the error is kept, the
\* statement of OnErrorStatement is sent, its own outcome rb is dropped
EditFailed(c, e, rb) ==
    LET errors == Append(c.errors, e)
        d == Logged([c EXCEPT !.errors = errors], OnErrorStatement, rb, 0)
    IN /\ EndTransaction(OnErrorStatement, rb)
       /\ cm' = IF AfterError = "done"
                THEN [d EXCEPT !.pc = "done", !.result = FailedResult(errors)]
                ELSE [d EXCEPT !.pc = AfterEdit(d.i, d.n)]

\* one turn of the loop over options.edits (query.rs:1211-1247): the next edit
\* of the list, its statement, the backend's answer; down is a failure of the
\* backend that the statement does not explain (a lost connection, a lock)
CommitEdit ==
    /\ cm.pc = "edits"
    /\ \E edit \in RequestEdits :
         LET b == BuildEdit(cm.primary_keys, edit)
             c == [cm EXCEPT !.i = @ + 1]
         IN IF b.error # "" THEN \E rb \in BOOLEAN : EditFailed(c, b.error, rb)
            ELSE IF b.stmt.kind = "skip" THEN
               /\ cm' = [c EXCEPT !.pc = AfterEdit(c.i, c.n),
                                  !.total_affected = Accumulate(@, 0)]
               /\ UNCHANGED <<table, txn>>
            ELSE \E down \in BOOLEAN :
                 LET r == IF down THEN [ok |-> FALSE, tbl |-> View, affected |-> 0]
                          ELSE RunStatement(View, b.stmt)
                 IN IF ~r.ok
                    THEN \E rb \in BOOLEAN :
                            EditFailed(Logged(c, b.stmt.kind, FALSE, 0),
                                       "error returned from database", rb)
                    ELSE /\ cm' = [Logged(c, b.stmt.kind, TRUE, r.affected) EXCEPT
                                     !.pc = AfterEdit(c.i, c.n),
                                     !.total_affected = Accumulate(@, r.affected)]
                         /\ IF txn = <<>> THEN table' = r.tbl /\ txn' = txn
                            ELSE txn' = <<r.tbl>> /\ table' = table
    /\ UNCHANGED commits
    /\ UNCHANGED <<execVars, buildVars, identVars, fnVars>>

\* COMMIT (query.rs:1250-1256)
CommitCommit ==
    /\ cm.pc = "commit"
    /\ \E ok \in BOOLEAN :
         /\ EndTransaction("COMMIT", ok)
         /\ cm' = [Logged(cm, "COMMIT", ok, 0) EXCEPT
                     !.pc = "done",
                     !.result = IF ok THEN CommittedResult(cm.total_affected, cm.errors)
                                ELSE CallError("CommitError")]
    /\ UNCHANGED commits
    /\ UNCHANGED <<execVars, buildVars, identVars, fnVars>>

CommitReturn ==
    /\ cm.pc = "done"
    /\ cm' = IdleCommit
    /\ UNCHANGED <<table, txn, commits>>
    /\ UNCHANGED <<execVars, buildVars, identVars, fnVars>>

\* ------------------------------------- one statement built from one edit
\* execute_update or execute_delete up to its statement, on any edit and any
\* primary-key list
BuildStatement ==
    /\ bw = <<>>
    /\ \E pks \in PrimaryKeyLists, edit \in Edits :
         bw' = <<[primary_keys |-> pks, edit |-> edit, built |-> BuildEdit(pks, edit)]>>
    /\ UNCHANGED <<execVars, commitVars, identVars, fnVars>>

\* --------------------------------------------- the validators on one name
NoVerdicts == [execute_query |-> "", fetch_more_rows |-> "", validate_sql |-> "",
               validate_identifier |-> ""]

\* a caller has a name to pass as a schema or an identifier
DrawName ==
    /\ idn = <<>>
    /\ \E name \in Names : idn' = <<[name |-> name, verdict |-> NoVerdicts]>>
    /\ UNCHANGED <<execVars, commitVars, buildVars, fnVars>>

Verdict(entry, v) ==
    /\ idn # <<>>
    /\ idn[1].verdict[entry] = ""
    /\ idn' = <<[idn[1] EXCEPT !.verdict[entry] = v]>>
    /\ UNCHANGED <<execVars, commitVars, buildVars, fnVars>>

ValidateExecute == Verdict("execute_query", ExecuteSchemaCheck(idn[1].name))
ValidateFetchMore == Verdict("fetch_more_rows", FetchMoreSchemaCheck(idn[1].name))
ValidateSql == Verdict("validate_sql", ValidateSqlSchemaCheck(idn[1].name))
ValidateIdentifier == Verdict("validate_identifier", validate_identifier(idn[1].name))

\* ------------------------------------ the SQL text of a commit statement
\* The text format!() builds in execute_update and execute_delete, as a
\* sequence of pieces: the fixed text of the format string in one piece, the
\* characters of each identifier one by one.
DQuote == "\""

\* identifiers of a commit request: up to MaxIdent characters, letters and
\* double quotes (CommitEditsOptions carries them as unchecked Strings)
RequestIdents == UNION {[1..k -> {"a", DQuote}] : k \in 1..MaxIdent}

\* "\"{}\"" of the format strings: the identifier between two double quotes
Embed(name) == <<DQuote>> \o name \o <<DQuote>>

ParamText(n) == IF n = 1 THEN " = $1" ELSE " = $2"

\* set_parts of one changed column
SetPartSql(col, val_null) ==
    IF val_null THEN Embed(col) \o <<" = NULL">>
    ELSE Embed(col) \o <<ParamText(1)>>

\* where_parts of one primary-key column; param_index is where the SET clause left it
WherePartSql(pk, pk_null, param_index) ==
    IF pk_null THEN Embed(pk) \o <<" IS NULL">>
    ELSE Embed(pk) \o <<ParamText(param_index)>>

UpdateSql(r) ==
    <<"UPDATE ">> \o Embed(r.schema_name) \o <<".">> \o Embed(r.table_name)
        \o <<" SET ">> \o SetPartSql(r.col, r.val_null)
        \o <<" WHERE ">> \o WherePartSql(r.pk, r.pk_null, IF r.val_null THEN 1 ELSE 2)

DeleteSql(r) ==
    <<"DELETE FROM ">> \o Embed(r.schema_name) \o <<".">> \o Embed(r.table_name)
        \o <<" WHERE ">> \o WherePartSql(r.pk, r.pk_null, 1)

\* The backend's reading of the text: a double quote opens a quoted identifier
\* that runs to the next double quote not followed by another one, two double
\* quotes in a row inside it standing for one; everything else is SQL text.
RECURSIVE Lex(_, _)
RECURSIVE LexQuoted(_, _, _)
Lex(text, k) ==
    IF k > Len(text) THEN <<>>
    ELSE IF text[k] = DQuote THEN LexQuoted(text, k + 1, <<>>)
    ELSE <<[kind |-> "sql", text |-> <<text[k]>>]>> \o Lex(text, k + 1)

LexQuoted(text, k, acc) ==
    IF k > Len(text) THEN <<[kind |-> "unterminated", text |-> acc]>>
    ELSE IF text[k] # DQuote THEN LexQuoted(text, k + 1, Append(acc, text[k]))
    ELSE IF k < Len(text) /\ text[k + 1] = DQuote
         THEN LexQuoted(text, k + 2, Append(acc, DQuote))
    ELSE <<[kind |-> "ident", text |-> acc]>> \o Lex(text, k + 1)

\* a commit request's identifiers and the statement text built from them
BuildSql ==
    /\ qs = <<>>
    /\ \E kind \in {"update", "delete"}, schema_name, table_name, pk \in RequestIdents,
          pk_null \in BOOLEAN :
         \E col \in IF kind = "update" THEN RequestIdents ELSE {<<"a">>},
            val_null \in IF kind = "update" THEN BOOLEAN ELSE {FALSE} :
           LET r == [kind |-> kind, schema_name |-> schema_name,
                     table_name |-> table_name, col |-> col, val_null |-> val_null,
                     pk |-> pk, pk_null |-> pk_null]
           IN qs' = <<[req |-> r,
                       sql |-> IF kind = "update" THEN UpdateSql(r) ELSE DeleteSql(r)]>>
    /\ UNCHANGED <<execVars, commitVars, buildVars, identVars, se, api, rg, pg, ed, dc, vl, iv, ar, pl>>


\* ------------------------------------------- error text and sanitize_error
\* An error message is a sequence of tokens: "secret" is the characters of a
\* credential, " " is whitespace, the other tokens are the substrings the
\* sanitizer searches for and runs of other characters.
UrlError == <<"postgres://", "secret", "@", "host">>
ParamError == <<"password=", "secret">>
ErrorFragments == {<<"error ">>, <<" ">>, UrlError, ParamError}

RECURSIVE Messages(_)
Messages(n) ==
    IF n = 0 THEN {<<>>}
    ELSE Messages(n - 1) \cup {m \o f : m \in Messages(n - 1), f \in ErrorFragments}

\* what a driver error's to_string() can be
DriverErrors == Messages(MaxFragments) \ {<<>>}

\* str::find: the first position at or after from where the token is, or 0
Find(msg, toks, from) ==
    LET hits == {k \in from..Len(msg) : msg[k] \in toks}
    IN IF hits = {} THEN 0 ELSE CHOOSE k \in hits : \A j \in hits : k <= j

\* the if-block of sanitize_error: the first URL, up to the first '@' after it
SanitizeUrl(msg) ==
    LET start == Find(msg, {"postgres://"}, 1)
        at == IF start = 0 THEN 0 ELSE Find(msg, {"@"}, start)
    IN IF start = 0 \/ at = 0 THEN msg
       ELSE SubSeq(msg, 1, start - 1) \o <<"postgres://", "[credentials]", "@">>
                \o SubSeq(msg, at + 1, Len(msg))

\* the characters that end a password= value
ValueEnd == {" ", "&", "\"", "'", ";"}

\* one turn of the while-loop of sanitize_error
SanitizePassword(msg) ==
    LET start == Find(msg, {"password="}, 1)
        after == SubSeq(msg, start + 1, Len(msg))
        stop == Find(after, ValueEnd, 1)
        end_offset == IF stop = 0 THEN Len(after) ELSE stop - 1
    IN SubSeq(msg, 1, start - 1) \o <<"password=", "[hidden]">>
           \o SubSeq(after, end_offset + 1, Len(after))

\* the exposed operations that turn a driver error into the caller's error
\* text, and whether they pass it through sanitize_error
SanitizingOps == {"connect_postgres", "test_connection"}
PlainOps == {"execute_query", "fetch_more_rows", "execute_statement", "cancel_query",
             "validate_sql", "check_query_editable", "commit_data_edits"}

\* a driver call of an operation fails
ErrorRaised ==
    /\ se = <<>>
    /\ \E op \in SanitizingOps \cup PlainOps, raw \in DriverErrors :
         se' = <<[op |-> op, raw |-> raw, msg |-> raw, iters |-> 0,
                  pc |-> IF op \in SanitizingOps THEN "url" ELSE "returned"]>>
    /\ UNCHANGED <<execVars, commitVars, buildVars, identVars, qs, api, rg, pg, ed, dc, vl, iv, ar, pl>>

SanitizeUrlStep ==
    /\ se # <<>> /\ se[1].pc = "url"
    /\ se' = <<[se[1] EXCEPT !.msg = SanitizeUrl(@), !.pc = "password"]>>
    /\ UNCHANGED <<execVars, commitVars, buildVars, identVars, qs, api, rg, pg, ed, dc, vl, iv, ar, pl>>

SanitizePasswordStep ==
    /\ se # <<>> /\ se[1].pc = "password"
    /\ Find(se[1].msg, {"password="}, 1) # 0
    /\ se[1].iters < MaxIters
    /\ se' = <<[se[1] EXCEPT !.msg = SanitizePassword(@), !.iters = @ + 1]>>
    /\ UNCHANGED <<execVars, commitVars, buildVars, identVars, qs, api, rg, pg, ed, dc, vl, iv, ar, pl>>

SanitizeReturn ==
    /\ se # <<>> /\ se[1].pc = "password"
    /\ Find(se[1].msg, {"password="}, 1) = 0
    /\ se' = <<[se[1] EXCEPT !.pc = "returned"]>>
    /\ UNCHANGED <<execVars, commitVars, buildVars, identVars, qs, api, rg, pg, ed, dc, vl, iv, ar, pl>>


\* ------------------------------- the exposed operations and their pool lookup
\* Every operation of query.rs that takes a connection id starts with
\* get_pool(..).ok_or_else(|| "Not connected to: ..")?; connect_postgres and
\* disconnect_postgres add and remove the pool of an id while operations run.
has_pool(connection_id) == connection_id \in connections
add_pool(pools, connection_id) == pools \cup {connection_id}
remove_pool(pools, connection_id) == pools \ {connection_id}

Operations == {"execute_query", "fetch_more_rows", "execute_statement", "cancel_query",
               "validate_sql", "check_query_editable", "commit_data_edits"}

IdleOp ==
    [pc |-> "idle", name |-> "execute_query", connection_id |-> "c1", query_id |-> "q1",
     result |-> "none",
     \* history of the call, read by the properties only
     pools |-> {}, before |-> <<>>, flagsBefore |-> <<>>,
     stmts |-> 0, registered |-> FALSE, marked |-> FALSE]

ApiInit == [task |-> IdleOp, calls |-> 0, toggles |-> 0]

\* the operation is called and looks its pool up
ApiStart ==
    /\ api.task.pc = "idle"
    /\ api.calls < MaxOps
    /\ \E name \in Operations, cid \in ConnIds, qid \in QueryIds :
         LET t == [IdleOp EXCEPT !.name = name, !.connection_id = cid, !.query_id = qid,
                                 !.pools = connections, !.before = running_queries,
                                 !.flagsBefore = flags]
         IN api' = [api EXCEPT !.calls = @ + 1,
                      !.task = IF get_pool(cid) THEN [t EXCEPT !.pc = "run"]
                               ELSE [t EXCEPT !.pc = "done", !.result = "NotConnected"]]
    /\ UNCHANGED <<connections, conns, running_queries, flags, ex, calls, cn, cancels>>
    /\ UNCHANGED <<commitVars, buildVars, identVars, qs, se, rg, pg, ed, dc, vl, iv, ar, pl>>

\* the rest of the operation, on the pool it found: execute_query registers its
\* query and unregisters it on the exits that do so; cancel_query marks the
\* flag of a registered query; every operation sends statements
ApiRun ==
    /\ api.task.pc = "run"
    /\ LET t == api.task IN
       \/ /\ t.name = "execute_query"
          /\ flags' = Append(flags, FALSE)
          /\ \E unregistered \in BOOLEAN :
               LET rq == register_query(running_queries, t.query_id, 100, Len(flags) + 1)
               IN running_queries' =
                      IF unregistered THEN unregister_query(rq, t.query_id) ELSE rq
          /\ \E r \in {"Ok", "Err"} :
               api' = [api EXCEPT !.task = [t EXCEPT !.pc = "done", !.result = r,
                                                     !.stmts = 1, !.registered = TRUE]]
       \/ /\ t.name = "cancel_query"
          /\ flags' = mark_query_cancelled(running_queries, flags, t.query_id)
          /\ api' = [api EXCEPT !.task =
                        IF get_query_backend_pid(running_queries, t.query_id) = <<>>
                        THEN [t EXCEPT !.pc = "done", !.result = "Err"]
                        ELSE [t EXCEPT !.pc = "done", !.result = "Ok", !.stmts = 1,
                                       !.marked = TRUE]]
          /\ UNCHANGED running_queries
       \/ /\ t.name \notin {"execute_query", "cancel_query"}
          /\ \E r \in {"Ok", "Err"} :
               api' = [api EXCEPT !.task = [t EXCEPT !.pc = "done", !.result = r,
                                                     !.stmts = 1]]
          /\ UNCHANGED <<running_queries, flags>>
    /\ UNCHANGED <<connections, conns, ex, calls, cn, cancels>>
    /\ UNCHANGED <<commitVars, buildVars, identVars, qs, se, rg, pg, ed, dc, vl, iv, ar, pl>>

\* the caller has the result
ApiReturn ==
    /\ api.task.pc = "done"
    /\ api' = [api EXCEPT !.task = IdleOp]
    /\ UNCHANGED <<execVars, commitVars, buildVars, identVars, qs, se, rg, pg, ed, dc, vl, iv, ar, pl>>

\* connect_postgres: the pool is there already, or create_pool makes it, or fails
Connect ==
    /\ api.toggles < MaxToggles
    /\ \E cid \in ConnIds, created \in BOOLEAN :
         connections' = IF has_pool(cid) \/ ~created THEN connections
                        ELSE add_pool(connections, cid)
    /\ api' = [api EXCEPT !.toggles = @ + 1]
    /\ UNCHANGED <<conns, running_queries, flags, ex, calls, cn, cancels>>
    /\ UNCHANGED <<commitVars, buildVars, identVars, qs, se, rg, pg, ed, dc, vl, iv, ar, pl>>

\* disconnect_postgres
Disconnect ==
    /\ api.toggles < MaxToggles
    /\ \E cid \in ConnIds : connections' = remove_pool(connections, cid)
    /\ api' = [api EXCEPT !.toggles = @ + 1]
    /\ UNCHANGED <<conns, running_queries, flags, ex, calls, cn, cancels>>
    /\ UNCHANGED <<commitVars, buildVars, identVars, qs, se, rg, pg, ed, dc, vl, iv, ar, pl>>


\* --------------------------------------- the registry operations by themselves
\* register_query, unregister_query and mark_query_cancelled called with any
\* query id on any registry they can have produced.

\* the bool mark_query_cancelled returns
MarkReturns(rq, query_id) == query_id \in DOMAIN rq

RegCalls == IF rg = <<>> THEN 0 ELSE rg[1].n

\* what one registry call did: the operation, its argument, what it returned
\* and the registry and flags it found
RegCall(op, query_id, ret) ==
    <<[op |-> op, query_id |-> query_id, ret |-> ret, n |-> RegCalls + 1,
       before |-> running_queries, flagsBefore |-> flags,
       repeat |-> rg # <<>> /\ rg[1].op = op /\ rg[1].query_id = query_id]>>

RegRegister ==
    /\ RegCalls < MaxRegCalls
    /\ \E q \in QueryIds, c \in PoolConns :
         /\ flags' = Append(flags, FALSE)
         /\ running_queries' =
                register_query(running_queries, q, BackendPid(c), Len(flags) + 1)
         /\ rg' = RegCall("register_query", q, FALSE)
    /\ UNCHANGED <<connections, conns, ex, calls, cn, cancels>>
    /\ UNCHANGED <<commitVars, buildVars, identVars, qs, se, api, pg, ed, dc, vl, iv, ar, pl>>

RegUnregister ==
    /\ RegCalls < MaxRegCalls
    /\ \E q \in QueryIds :
         /\ running_queries' = unregister_query(running_queries, q)
         /\ rg' = RegCall("unregister_query", q, FALSE)
    /\ UNCHANGED <<connections, conns, flags, ex, calls, cn, cancels>>
    /\ UNCHANGED <<commitVars, buildVars, identVars, qs, se, api, pg, ed, dc, vl, iv, ar, pl>>

RegMark ==
    /\ RegCalls < MaxRegCalls
    /\ \E q \in QueryIds :
         /\ flags' = mark_query_cancelled(running_queries, flags, q)
         /\ rg' = RegCall("mark_query_cancelled", q, MarkReturns(running_queries, q))
    /\ UNCHANGED <<connections, conns, running_queries, ex, calls, cn, cancels>>
    /\ UNCHANGED <<commitVars, buildVars, identVars, qs, se, api, pg, ed, dc, vl, iv, ar, pl>>


\* ------------------------------------------------- paging: fetch_more_rows
\* A statement whose rows come back in the same order every time, read page by
\* page: execute_query(limit) and then fetch_more_rows(limit, offset) with the
\* offset moved on by limit while the last page said has_more.
\* the results a statement can have: rows told apart by their number, in any order
PageResults ==
    UNION {{r \in [1..n -> 1..MaxPageRows] : \A i, j \in 1..n : i # j => r[i] # r[j]} :
              n \in 0..MaxPageRows}

\* LIMIT lim OFFSET off of the wrapped statement, on the backend
Window(result, lim, off) == SubSeq(result, off + 1, Min(Len(result), off + lim))

\* the loop over the stream: rows are pushed until there are more than limit
Received(rows, limit) == SubSeq(rows, 1, Min(Len(rows), limit + 1))

\* (mutant) the wrapped statement asks for limit rows, without the lookahead row
FetchMoreLimit_NoLookahead(limit) == limit
\* LIMIT {} of the wrapped statement: limit + 1
FetchMoreLimit(limit) == limit + 1

EmptyPage == [rows |-> <<>>, row_count |-> 0, has_more |-> FALSE]

\* the QueryResult of execute_query from the rows it received
ExecutePage(got, limit) ==
    IF got = <<>> THEN EmptyPage
    ELSE [rows |-> SubSeq(got, 1, RowLimit(Len(got), limit)),
          row_count |-> RowLimit(Len(got), limit),
          has_more |-> HasMore(Len(got), limit)]

\* the QueryResult of fetch_more_rows from the rows it received
FetchMorePage(got, limit) ==
    IF got = <<>> THEN EmptyPage
    ELSE [rows |-> SubSeq(got, 1, Min(Len(got), limit)),
          row_count |-> Min(Len(got), limit),
          has_more |-> Len(got) > limit]

\* execute_query(sql, limit) returns the first page, or the stream fails
PageExecute ==
    /\ pg = <<>>
    /\ \E result \in PageResults, limit \in 0..MaxPageSize, failed \in BOOLEAN :
         pg' = <<[result |-> result, limit |-> limit, failed |-> failed,
                  pages |-> IF failed THEN <<>>
                            ELSE <<ExecutePage(Received(result, limit), limit)>>]>>
    /\ UNCHANGED <<execVars, commitVars, buildVars, identVars, qs, se, api, rg, ed, dc, vl, iv, ar, pl>>

\* the call for the first page is made again after it failed
PageExecuteAgain ==
    /\ pg # <<>> /\ pg[1].pages = <<>>
    /\ pg' = <<[pg[1] EXCEPT !.failed = FALSE,
                   !.pages = <<ExecutePage(Received(pg[1].result, pg[1].limit),
                                           pg[1].limit)>>]>>
    /\ UNCHANGED <<execVars, commitVars, buildVars, identVars, qs, se, api, rg, ed, dc, vl, iv, ar, pl>>

\* fetch_more_rows(sql, limit, offset = pages so far * limit) returns the next
\* page, or its stream fails and the call is made again later
PageFetchMore ==
    /\ pg # <<>> /\ pg[1].pages # <<>>
    /\ pg[1].pages[Len(pg[1].pages)].has_more
    /\ Len(pg[1].pages) < MaxPages
    /\ \E failed \in BOOLEAN :
         /\ failed => ~pg[1].failed
         /\ LET limit == pg[1].limit
                offset == Len(pg[1].pages) * limit
                got == Received(Window(pg[1].result, FetchMoreLimit(limit), offset), limit)
            IN pg' = <<[pg[1] EXCEPT !.failed = failed,
                           !.pages = IF failed THEN @
                                     ELSE Append(@, FetchMorePage(got, limit))]>>
    /\ UNCHANGED <<execVars, commitVars, buildVars, identVars, qs, se, api, rg, ed, dc, vl, iv, ar, pl>>


\* ------------------------------------------- check_query_editable (query.rs)
\* A statement is a sequence of tokens: words (keywords and names, with their
\* casing), symbols, whitespace characters, the "--" that opens a line comment
\* and a whole block comment. A token holds no whitespace and no part of a
\* keyword other than the keyword itself, so the substring tests of the code
\* are tests on tokens.
Word(w, c) == [w |-> w, c |-> c]
Kw(w) == Word(w, "upper")
Name(w) == Word(w, "lower")
Sym(w) == Word(w, "sym")
Sp == Sym(" ")
Tab == Sym("\t")
Nl == Sym("\n")
Dashes == Sym("--")
BlockComment == Sym("/*c*/")
Star == Sym("*")
Open == Sym("(")
Close == Sym(")")

\* the statements tried, keywords in upper case, one list entry per lexeme
Shapes ==
    [plain |-> <<Kw("SELECT"), Star, Kw("FROM"), Name("t")>>,
     join |-> <<Kw("SELECT"), Star, Kw("FROM"), Name("t"), Kw("JOIN"), Name("u"),
                Kw("USING"), Open, Name("a"), Close>>,
     union |-> <<Kw("SELECT"), Star, Kw("FROM"), Name("t"), Kw("UNION"),
                 Kw("SELECT"), Star, Kw("FROM"), Name("u")>>,
     group_by |-> <<Kw("SELECT"), Name("a"), Kw("FROM"), Name("t"), Kw("GROUP"),
                    Kw("BY"), Name("a")>>,
     distinct |-> <<Kw("SELECT"), Kw("DISTINCT"), Name("a"), Kw("FROM"), Name("t")>>,
     subselect |-> <<Kw("SELECT"), Star, Kw("FROM"), Name("t"), Kw("WHERE"), Name("a"),
                     Kw("IN"), Open, Kw("SELECT"), Name("a"), Kw("FROM"), Name("u"),
                     Close>>,
     cte |-> <<Kw("WITH"), Name("x"), Kw("AS"), Open, Kw("VALUES"), Open, Name("a"),
               Close, Close, Kw("SELECT"), Star, Kw("FROM"), Name("x")>>]

\* the shapes the spec calls not editable whatever the table
ComplexShapes == DOMAIN Shapes \ {"plain"}

Casings == {"upper", "lower", "mixed"}
Cased(tok, c) == IF tok.c = "upper" THEN Word(tok.w, c) ELSE tok

\* what separates two lexemes: whitespace, a line break, a comment; nothing at
\* all is a separator next to a parenthesis only
Separators == {<<Sp>>, <<Sp, Sp>>, <<Nl>>, <<Tab>>, <<BlockComment>>,
               <<Sp, Dashes, Name("c"), Nl>>}
Glued(a, b) == a = Open \/ b = Open \/ a = Close \/ b = Close
SeparatorsAt(shape, gap) ==
    Separators \cup (IF Glued(shape[gap], shape[gap + 1]) THEN {<<>>} ELSE {})
\* the way the statement is usually written: (a) without blanks inside the parentheses
UsualSeparator(a, b) == IF a = Open \/ b = Close THEN <<>> ELSE <<Sp>>

\* the text of a shape in a casing, written the usual way but for one gap
RECURSIVE Written(_, _, _, _, _)
Written(shape, c, gap, sep, k) ==
    IF k > Len(shape) THEN <<>>
    ELSE <<Cased(shape[k], c)>>
         \o (IF k = Len(shape) THEN <<>>
             ELSE IF k = gap THEN sep
             ELSE UsualSeparator(shape[k], shape[k + 1]))
         \o Written(shape, c, gap, sep, k + 1)

\* str::lines and str::split_whitespace: the pieces between the tokens of seps
RECURSIVE Split(_, _, _)
Split(text, seps, piece) ==
    IF text = <<>> THEN <<piece>>
    ELSE IF Head(text) \in seps THEN <<piece>> \o Split(Tail(text), seps, <<>>)
    ELSE Split(Tail(text), seps, Append(piece, Head(text)))

\* &l[..pos] for the first "--" of the line, the whole line without one
StripLineComment(line) ==
    LET at == {k \in 1..Len(line) : line[k] = Dashes}
    IN IF at = {} THEN line
       ELSE SubSeq(line, 1, (CHOOSE k \in at : \A j \in at : k <= j) - 1)

RECURSIVE JoinLines(_)
JoinLines(lines) ==
    IF lines = <<>> THEN <<>>
    ELSE IF Len(lines) = 1 THEN lines[1]
    ELSE lines[1] \o <<Sp>> \o JoinLines(Tail(lines))

RECURSIVE NonEmpty(_)
NonEmpty(pieces) ==
    IF pieces = <<>> THEN <<>>
    ELSE IF Head(pieces) = <<>> THEN NonEmpty(Tail(pieces))
    ELSE <<Head(pieces)>> \o NonEmpty(Tail(pieces))

\* normalized: the words of the text without its line comments; the string is
\* these words with one blank between two of them
Normalized(sql) ==
    LET lines == Split(sql, {Nl}, <<>>)
        stripped == [k \in 1..Len(lines) |-> StripLineComment(lines[k])]
    IN NonEmpty(Split(JoinLines(stripped), {Sp, Tab, Nl}, <<>>))

to_uppercase(tok) == IF tok.c = "sym" THEN tok ELSE Word(tok.w, "upper")
Upper(words) == [i \in 1..Len(words) |-> [j \in 1..Len(words[i]) |-> to_uppercase(words[i][j])]]

\* upper.contains(" W1 W2 "): the words stand by themselves, blanks around them
ContainsWords(upper, ws) ==
    \E i \in 2..Len(upper) :
        /\ i + Len(ws) - 1 < Len(upper)
        /\ \A k \in 1..Len(ws) : upper[i + k - 1] = <<Kw(ws[k])>>

\* upper.starts_with("SELECT DISTINCT")
StartsSelectDistinct(upper) ==
    /\ Len(upper) >= 2
    /\ upper[1] = <<Kw("SELECT")>>
    /\ upper[2][1] = Kw("DISTINCT")

\* upper.contains("(SELECT ")
ContainsSubselect(upper) ==
    \E i \in 1..Len(upper) - 1 :
        LET w == upper[i] IN
        /\ Len(w) >= 2
        /\ w[Len(w) - 1] = Open
        /\ w[Len(w)] = Kw("SELECT")

\* upper.starts_with("WITH ")
StartsWith(upper) == Len(upper) >= 2 /\ upper[1] = <<Kw("WITH")>>

\* the reason the statement is disqualified for, "" when for none
Disqualified(upper) ==
    IF ContainsWords(upper, <<"JOIN">>) THEN "query contains JOIN"
    ELSE IF ContainsWords(upper, <<"UNION">>) THEN "query contains UNION"
    ELSE IF ContainsWords(upper, <<"GROUP", "BY">>) THEN "query contains GROUP BY"
    ELSE IF ContainsWords(upper, <<"DISTINCT">>) \/ StartsSelectDistinct(upper)
         THEN "query contains DISTINCT"
    ELSE IF ContainsSubselect(upper) THEN "query contains subquery"
    ELSE IF StartsWith(upper) THEN "query contains CTE"
    ELSE ""

\* parse_identifier on the text after " FROM ": the name it reads, none when
\* the text starts with a character that is no letter, digit or underscore
\* (no statement tried has a quoted name)
parse_identifier(word) ==
    IF word[1].c = "sym" THEN <<>> ELSE <<word[1].w>>

\* extract_table_from_sql: the table after the first " FROM "
extract_table_from_sql(upper, normalized) ==
    LET at == {i \in 2..Len(upper) - 1 : upper[i] = <<Kw("FROM")>>}
    IN IF at = {} THEN <<>>
       ELSE parse_identifier(normalized[(CHOOSE i \in at : \A j \in at : i <= j) + 1])

\* what get_columns finds: it fails, or gives the primary-key columns of the table
Lookups == {[ok |-> FALSE, primary_keys |-> <<>>],
            [ok |-> TRUE, primary_keys |-> <<>>],
            [ok |-> TRUE, primary_keys |-> <<"id">>],
            [ok |-> TRUE, primary_keys |-> <<"id", "v">>]}

not_editable(reason) ==
    [kind |-> "Ok", is_editable |-> FALSE, reason |-> <<reason>>, table_name |-> "",
     primary_keys |-> <<>>]

\* (mutant) a table without primary key passes
NoPrimaryKey_Never(primary_keys) == FALSE
\* primary_keys.is_empty()
NoPrimaryKey(primary_keys) == primary_keys = <<>>

\* check_query_editable on a connected pool
CheckQueryEditable(sql, lookup) ==
    LET normalized == Normalized(sql)
        upper == Upper(normalized)
        found == extract_table_from_sql(upper, normalized)
    IN IF Disqualified(upper) # "" THEN not_editable(Disqualified(upper))
       ELSE IF found = <<>> THEN not_editable("unable to parse table name")
       ELSE IF ~lookup.ok THEN [not_editable("") EXCEPT !.kind = "Err", !.reason = <<>>]
       ELSE IF NoPrimaryKey(lookup.primary_keys)
            THEN not_editable("table has no primary key")
       ELSE [kind |-> "Ok", is_editable |-> TRUE, reason |-> <<>>,
             table_name |-> found[1], primary_keys |-> lookup.primary_keys]

\* one statement, one table, one verdict
AnalyzeStatement ==
    /\ ed = <<>>
    /\ \E shape \in DOMAIN Shapes, c \in Casings, lookup \in Lookups :
         \E gap \in 1..Len(Shapes[shape]) - 1 :
            \E sep \in SeparatorsAt(Shapes[shape], gap) :
               LET sql == Written(Shapes[shape], c, gap, sep, 1)
               IN ed' = <<[shape |-> shape, sql |-> sql, lookup |-> lookup,
                           verdict |-> CheckQueryEditable(sql, lookup)]>>
    /\ UNCHANGED <<execVars, commitVars, buildVars, identVars, qs, se, api, rg, pg, dc, vl, iv, ar, pl>>


\* ------------------------------------ extract_value / extract_array_value
\* A cell is SQL NULL or holds a value; a backend type name is a base name in
\* some casing, as such, with a leading underscore or with a trailing [].
\* try_get::<Option<T>> on a cell fails or succeeds, the same way each time it
\* is asked for the same T; when it succeeds it gives None for NULL and Some
\* for a value.
ScalarBases == {"INT4", "FLOAT8", "NUMERIC", "BOOL", "JSONB", "TIMETZ", "TEXT", "HSTORE"}
ArrayBases == {"INT4", "FLOAT8", "TEXT", "JSONB", "HSTORE"}
TypeNames ==
    [base : ScalarBases, array : {"no"}, casing : {"upper", "lower"}]
        \cup [base : ArrayBases, array : {"_", "[]"}, casing : {"upper"}]

\* the outcomes of the extraction attempts on one cell: the typed attempt, the
\* attempt as String (Vec<String> for an array), try_get_raw and as_str
TryOutcomes == [typed : BOOLEAN, text : BOOLEAN, raw : BOOLEAN, as_str : BOOLEAN]

\* (mutant) None is decoded as the value an empty Some would give
FromOption_Default(cell_null, some) == some
\* match v { Some(x) => .., None => serde_json::Value::Null }
FromOption(cell_null, some) == IF cell_null THEN "null" ELSE some

\* the JSON kind a typed attempt gives for a value of the base type
TypedKind(base) ==
    CASE base \in {"INT4", "FLOAT8", "NUMERIC"} -> "number"
      [] base = "BOOL" -> "bool"
      [] base = "JSONB" -> "json"
      [] OTHER -> "string"

\* the base names whose arm makes a typed attempt
ScalarTyped == {"INT4", "FLOAT8", "NUMERIC", "BOOL", "JSONB"}
ArrayTyped == {"INT4", "FLOAT8", "TEXT", "JSONB"}

extract_array_value(cell_null, base, try) ==
    LET typed_ok == IF base = "TEXT" THEN try.text ELSE try.typed
    IN IF base \in ArrayTyped /\ typed_ok THEN FromOption(cell_null, "array")
       ELSE IF try.text THEN FromOption(cell_null, "array")
       ELSE IF try.raw /\ cell_null THEN "null"
       ELSE IF try.raw /\ try.as_str THEN "array"
       ELSE "null"

extract_value(cell_null, type_name, try) ==
    IF type_name.array # "no" THEN extract_array_value(cell_null, type_name.base, try)
    ELSE IF type_name.base \in ScalarTyped /\ try.typed
         THEN FromOption(cell_null, TypedKind(type_name.base))
    ELSE IF try.text THEN FromOption(cell_null, "string")
    ELSE "null"

\* the columns of a result row: name, type name, cell and how the attempts on it go
ColumnNames == {"a", "b"}
Cells == [name : ColumnNames, type_name : TypeNames, is_null : BOOLEAN, try : TryOutcomes]
\* the columns before the last one are of one plain type
PlainCells == {c \in Cells : c.type_name = [base |-> "INT4", array |-> "no", casing |-> "upper"]
                              /\ c.try = [typed |-> TRUE, text |-> TRUE, raw |-> TRUE,
                                          as_str |-> TRUE]}
RowsTried ==
    UNION {{r \in [1..n -> Cells] : \A k \in 1..n - 1 : r[k] \in PlainCells} : n \in 1..MaxCols}

\* map.insert(col.name.clone(), value) for the columns in order
RECURSIVE RowObject(_, _)
RowObject(cells, k) ==
    IF k = 0 THEN <<>>
    ELSE LET before == RowObject(cells, k - 1)
             c == cells[k]
         IN [key \in DOMAIN before \cup {c.name} |->
                IF key = c.name THEN extract_value(c.is_null, c.type_name, c.try)
                ELSE before[key]]

\* one row of a result is converted
DecodeRow ==
    /\ dc = <<>>
    /\ \E cells \in RowsTried :
         dc' = <<[cells |-> cells,
                  values |-> [k \in 1..Len(cells) |->
                                 extract_value(cells[k].is_null, cells[k].type_name,
                                               cells[k].try)],
                  object |-> RowObject(cells, Len(cells))]>>
    /\ UNCHANGED <<execVars, commitVars, buildVars, identVars, qs, se, api, rg, pg, ed, vl, iv, ar, pl>>


\* ------------------------------------------------------------ validate_sql
\* The caller's text is a sequence of characters: a blank, a line break, a
\* no-break space (white space, two bytes in UTF-8), a letter and an accented
\* letter (two bytes). String::len counts bytes, Chars counts characters and
\* the backend counts characters.
SqlChars == {" ", "\n", "nbsp", "x", "eacute"}
SqlTexts == UNION {[1..n -> SqlChars] : n \in 0..MaxSqlLen}

is_whitespace(c) == c \in {" ", "\n", "nbsp"}
utf8_len(c) == IF c \in {"nbsp", "eacute"} THEN 2 ELSE 1

RECURSIVE len(_)
len(s) == IF s = <<>> THEN 0 ELSE utf8_len(Head(s)) + len(Tail(s))

RECURSIVE trim_start(_)
trim_start(s) ==
    IF s # <<>> /\ is_whitespace(Head(s)) THEN trim_start(Tail(s)) ELSE s

RECURSIVE trim_end(_)
trim_end(s) ==
    IF s # <<>> /\ is_whitespace(s[Len(s)]) THEN trim_end(SubSeq(s, 1, Len(s) - 1)) ELSE s

trim(s) == trim_end(trim_start(s))

\* sql.len() - sql.trim_start().len()
leading_whitespace_len(sql) == len(sql) - len(trim_start(sql))

\* "PREPARE validate_<uuid with underscores> AS ": 8 + 9 + 36 + 4 bytes, all ASCII
PrefixLen == 57

\* decimal digits of a number, as the backend writes them in its message
DigitChars == <<"0", "1", "2", "3", "4", "5", "6", "7", "8", "9">>
RECURSIVE Digits(_)
Digits(n) ==
    IF n < 10 THEN <<DigitChars[n + 1]>> ELSE Digits(n \div 10) \o <<DigitChars[(n % 10) + 1]>>

is_ascii_digit(c) == \E d \in 1..10 : DigitChars[d] = c

\* str::parse::<usize> of a run of digits; the empty run does not parse
RECURSIVE parse_usize(_)
parse_usize(ds) ==
    IF Len(ds) = 1 THEN (CHOOSE d \in 1..10 : DigitChars[d] = ds[1]) - 1
    ELSE 10 * parse_usize(SubSeq(ds, 1, Len(ds) - 1))
            + (CHOOSE d \in 1..10 : DigitChars[d] = ds[Len(ds)]) - 1

\* the message of a failed PREPARE, with or without a position
ErrorMessage(p) ==
    <<"error returned from database: ", "syntax error ">>
        \o (IF p = 0 THEN <<>> ELSE <<"at character ">> \o Digits(p))

\* what the backend answers to PREPARE <name> AS <trimmed>: success, or an
\* error with no position or with the 1-based position of a character of the
\* statement, or of the end of it, counted in the text it was sent
PrepareOutcomes(sql_trimmed) ==
    {[ok |-> TRUE, raw |-> 0]}
        \cup {[ok |-> FALSE, raw |-> p] :
                 p \in {0} \cup (PrefixLen + 1..PrefixLen + Len(sql_trimmed) + 1)}

RECURSIVE LineColFrom(_, _, _, _, _)
LineColFrom(sql, position, i, line, col) ==
    IF i > Len(sql) \/ i >= position THEN <<line, col>>
    ELSE IF sql[i] = "\n" THEN LineColFrom(sql, position, i + 1, line + 1, 1)
    ELSE LineColFrom(sql, position, i + 1, line, col + 1)

char_position_to_line_col(sql, position) == LineColFrom(sql, position, 1, 1, 1)

parse_error_position(error_msg, original_sql, prefix_len, leading_ws_len) ==
    LET pos_start == Find(error_msg, {"at character "}, 1)
        start == pos_start + 1
        stop == Find(error_msg, {error_msg[k] : k \in {k \in DOMAIN error_msg : ~is_ascii_digit(error_msg[k])}}, start)
        end == IF stop = 0 THEN Len(error_msg) + 1 ELSE stop
        raw_position ==
            IF pos_start = 0 \/ end = start THEN <<>>
            ELSE <<parse_usize(SubSeq(error_msg, start, end - 1))>>
        position ==
            IF raw_position = <<>> THEN <<>>
            ELSE IF raw_position[1] > prefix_len
                 THEN <<raw_position[1] - prefix_len + leading_ws_len>>
                 ELSE <<1>>
    IN IF position = <<>> THEN [position |-> <<>>, line |-> <<>>, column |-> <<>>]
       ELSE [position |-> position,
             line |-> <<char_position_to_line_col(original_sql, position[1])[1]>>,
             column |-> <<char_position_to_line_col(original_sql, position[1])[2]>>]

Valid == [kind |-> "Ok", valid |-> TRUE, position |-> <<>>, line |-> <<>>, column |-> <<>>]

validate_sql(pooled, sql, schema, outcome) ==
    IF ~pooled THEN [Valid EXCEPT !.kind = "Not connected", !.valid = FALSE]
    ELSE IF trim(sql) = <<>> THEN Valid
    ELSE IF schema = "invalid" THEN [Valid EXCEPT !.kind = "Invalid schema name", !.valid = FALSE]
    ELSE IF outcome.ok THEN Valid
    ELSE LET at == parse_error_position(ErrorMessage(outcome.raw), sql, PrefixLen,
                                        leading_whitespace_len(sql))
         IN [kind |-> "Ok", valid |-> FALSE, position |-> at.position,
             line |-> at.line, column |-> at.column]

\* one text is validated
ValidateText ==
    /\ vl = <<>>
    /\ \E pooled \in BOOLEAN, sql \in SqlTexts, schema \in {"none", "valid", "invalid"} :
         \E outcome \in PrepareOutcomes(trim(sql)) :
            vl' = <<[pool |-> pooled, sql |-> sql, schema |-> schema,
                     outcome |-> outcome,
                     result |-> validate_sql(pooled, sql, schema, outcome)]>>
    /\ UNCHANGED <<execVars, commitVars, buildVars, identVars, qs, se, api, rg, pg, ed, dc, iv, ar, pl>>


\* ------------------------------------------------- extract_value, INTERVAL
\* PgInterval is (months : i32, days : i32, microseconds : i64). The i64 is
\* held as its quotient and remainder by 1_000_000, both of the sign of the
\* whole: total_secs and micros of the code.
\* the least and the greatest i32
I32Min == -2147483647 - 1
I32Max == -(I32Min + 1)

\* (mutant) the remainder of the floor division, never negative
rem_Floor(n, d) == n % d
\* Rust's / and % on signed integers: the quotient is rounded towards zero and
\* the remainder has the sign of the dividend
quot(n, d) == IF n >= 0 THEN n \div d ELSE -((-n) \div d)
rem(n, d) == IF n >= 0 THEN n % d ELSE -((-n) % d)

\* i32::abs, that wraps at the least value without overflow checks
abs(n) == IF n = I32Min THEN I32Min ELSE IF n < 0 THEN -n ELSE n

Intervals ==
    [months : -MaxMonths..MaxMonths,
     days : (-MaxDays..MaxDays) \cup {I32Min, I32Max},
     total_secs : {0, 1, -1, 59, 60, 3599, 3600, -3600, 3661, -3661, 90061},
     micros : {0, 1, -1, 500000, -500000, 999999}]
Microseconds ==
    {v \in Intervals : (v.total_secs > 0 => v.micros >= 0) /\ (v.total_secs < 0 => v.micros <= 0)}

\* format!("{} year{}", n, if n.abs() != 1 { "s" } else { "" })
Counted(n, word) ==
    [n |-> n, word |-> IF abs(n) # 1 THEN word \o "s" ELSE word, clock |-> <<>>]
\* format!("{:02}:{:02}:{:02}", ..) and format!("{:02}:{:02}:{:02}.{:06}", ..)
Clock(fields) == [n |-> 0, word |-> "", clock |-> fields]

YearMonthParts(interval) ==
    IF interval.months # 0
    THEN LET years == quot(interval.months, 12)
             months == rem(interval.months, 12)
         IN (IF years # 0 THEN <<Counted(years, "year")>> ELSE <<>>)
               \o (IF months # 0 THEN <<Counted(months, "mon")>> ELSE <<>>)
    ELSE <<>>

DayParts(interval) ==
    IF interval.days # 0 THEN <<Counted(interval.days, "day")>> ELSE <<>>

ClockParts(interval) ==
    IF interval.total_secs # 0 \/ interval.micros # 0
    THEN LET total_secs == interval.total_secs
             hours == quot(total_secs, 3600)
             mins == quot(rem(total_secs, 3600), 60)
             secs == rem(total_secs, 60)
             micros == interval.micros
         IN IF hours # 0 \/ mins # 0 \/ secs # 0 \/ micros # 0
            THEN IF micros # 0 THEN <<Clock(<<hours, mins, secs, abs(micros)>>)>>
                 ELSE <<Clock(<<hours, mins, secs>>)>>
            ELSE <<>>
    ELSE <<>>

\* The string of the Some(interval) arm: the parts joined by blanks
FormatInterval(interval) ==
    LET parts == YearMonthParts(interval) \o DayParts(interval) \o ClockParts(interval)
    IN IF parts = <<>> THEN <<Clock(<<0, 0, 0>>)>> ELSE parts

\* one INTERVAL cell is decoded
DecodeInterval ==
    /\ iv = <<>>
    /\ \E interval \in Microseconds :
         iv' = <<[interval |-> interval, text |-> FormatInterval(interval)]>>
    /\ UNCHANGED <<execVars, commitVars, buildVars, identVars, qs, se, api, rg, pg, ed, dc, vl, ar, pl>>


\* -------------------------------------- parse_pg_array_string (query.rs)
\* The text of an array as the backend writes it: the elements separated by
\* commas, an element without quotes when it is NULL or a plain word, else in
\* double quotes with every quote and backslash inside it after a backslash.
\* A text is a sequence of pieces: the characters that matter one by one and
\* the words "a", "12", "1.5", "t" and "NULL" as wholes.
ElementPieces == {"a", "12", "1.5", "t", "NULL", " ", ",", "\"", "\\"}
ElementTexts == UNION {[1..n -> ElementPieces] : n \in 0..MaxElemLen}
\* an element is NULL or a text
ArrayElements == {[null |-> TRUE, text |-> <<>>]} \cup [null : {FALSE}, text : ElementTexts]
ArraysWritten == UNION {[1..n -> ArrayElements] : n \in 1..MaxElems}

NeedsQuotes(text) ==
    \/ text = <<>>
    \/ text = <<"NULL">>
    \/ \E k \in DOMAIN text : text[k] \in {" ", ",", "\"", "\\"}

RECURSIVE Escaped(_)
Escaped(text) ==
    IF text = <<>> THEN <<>>
    ELSE (IF Head(text) \in {"\"", "\\"} THEN <<"\\", Head(text)>> ELSE <<Head(text)>>)
            \o Escaped(Tail(text))

ElementOut(e) ==
    IF e.null THEN <<"NULL">>
    ELSE IF NeedsQuotes(e.text) THEN <<"\"">> \o Escaped(e.text) \o <<"\"">>
    ELSE e.text

\* the text between the braces
RECURSIVE ArrayBody(_)
ArrayBody(elems) ==
    IF Len(elems) = 1 THEN ElementOut(elems[1])
    ELSE ElementOut(Head(elems)) \o <<",">> \o ArrayBody(Tail(elems))

JsonNull == [kind |-> "null", text |-> <<>>]
\* trimmed.parse::<i64>() and trimmed.parse::<f64>() on the words of a token
ParsesI64(t) == t # <<>> /\ \A k \in DOMAIN t : t[k] = "12"
ParsesF64(t) ==
    /\ t # <<>>
    /\ \A k \in DOMAIN t : t[k] \in {"12", "1.5"}
    /\ Cardinality({k \in DOMAIN t : t[k] = "1.5"}) <= 1

pg_element_to_json(s) ==
    LET trimmed == trim(s)
    IN IF trimmed = <<"NULL">> THEN JsonNull
       ELSE IF ParsesI64(trimmed) THEN [kind |-> "number", text |-> trimmed]
       ELSE IF ParsesF64(trimmed) THEN [kind |-> "number", text |-> trimmed]
       ELSE IF trimmed = <<"t">> THEN [kind |-> "bool", text |-> trimmed]
       ELSE [kind |-> "string", text |-> trimmed]

\* the loop over s.chars(): the elements pushed, current and in_quotes
RECURSIVE ParseLoop(_, _, _, _)
ParseLoop(s, elements, current, in_quotes) ==
    IF s = <<>> THEN [elements |-> elements, current |-> current]
    ELSE LET c == Head(s) IN
         IF c = "\"" THEN ParseLoop(Tail(s), elements, current, ~in_quotes)
         ELSE IF c = "," /\ ~in_quotes
              THEN ParseLoop(Tail(s), Append(elements, pg_element_to_json(current)), <<>>,
                             in_quotes)
         ELSE ParseLoop(Tail(s), elements, Append(current, c), in_quotes)

parse_pg_array_string(s) ==
    LET end == ParseLoop(s, <<>>, <<>>, FALSE)
    IN IF end.current # <<>> \/ s # <<>>
       THEN Append(end.elements, pg_element_to_json(end.current))
       ELSE end.elements

\* one array text is parsed
ParseArray ==
    /\ ar = <<>>
    /\ \E elems \in ArraysWritten :
         ar' = <<[written |-> elems, body |-> ArrayBody(elems),
                  elements |-> parse_pg_array_string(ArrayBody(elems))]>>
    /\ UNCHANGED <<execVars, commitVars, buildVars, identVars, qs, se, api, rg, pg, ed, dc, vl,
                   iv, pl>>


\* ----------------------- connect_postgres / disconnect_postgres / delete_connection
\* The pools of one connection id. created is the list of the pools that
\* create_pool returned, each "registered" (in the map of AppState), "held"
\* (taken out of the map by a task that is about to close it), "closed"
\* (pool.close() ran) or "replaced" (put out of the map by the insert of
\* another pool, its handle dropped); registered is the map's entry of the id.
PoolTasks == 1..MaxPoolTasks
IdlePoolTask == [pc |-> "idle", op |-> "none", pool |-> 0]
PoolsInit ==
    [created |-> <<>>, registered |-> <<>>, config |-> TRUE, calls |-> 0,
     task |-> [t \in PoolTasks |-> IdlePoolTask]]

\* connections.insert(connection_id, pool) drops the pool the map held
Replaced == "replaced"

\* AppState::add_pool: the map's entry is the new pool, whatever it was
insert_pool(p, pool) ==
    [p EXCEPT !.registered = <<pool>>,
              !.created = [i \in DOMAIN @ |->
                              IF p.registered = <<i>> THEN Replaced
                              ELSE IF i = pool THEN "registered" ELSE @[i]]]

\* AppState::remove_pool: the entry is taken out and handed to the caller
take_pool(p) ==
    IF p.registered = <<>> THEN p
    ELSE [p EXCEPT !.registered = <<>>, !.created[p.registered[1]] = "held"]

\* a command is called: connect_postgres up to its has_pool test,
\* disconnect_postgres up to remove_pool, delete_connection up to has_pool
PoolCall(t) ==
    /\ pl.task[t].pc = "idle"
    /\ pl.calls < MaxPoolCalls
    /\ \E op \in {"connect_postgres", "disconnect_postgres", "delete_connection"} :
         LET c == [pl EXCEPT !.calls = @ + 1]
             me == [IdlePoolTask EXCEPT !.op = op]
         IN CASE op = "connect_postgres" ->
                   pl' = [c EXCEPT !.task[t] =
                            IF ~pl.config \/ pl.registered # <<>>
                            THEN [me EXCEPT !.pc = "done"]
                            ELSE [me EXCEPT !.pc = "create"]]
              [] op = "disconnect_postgres" ->
                   pl' = [take_pool(c) EXCEPT !.task[t] =
                            IF pl.registered = <<>> THEN [me EXCEPT !.pc = "done"]
                            ELSE [me EXCEPT !.pc = "close", !.pool = pl.registered[1]]]
              [] op = "delete_connection" ->
                   pl' = [c EXCEPT !.task[t] =
                            IF pl.registered = <<>> THEN [me EXCEPT !.pc = "forget"]
                            ELSE [me EXCEPT !.pc = "remove"]]
    /\ UNCHANGED <<execVars, commitVars, buildVars, identVars, qs, se, api, rg, pg, ed, dc, vl,
                   iv, ar>>

\* create_pool returns: the pool is put in the map, or the connection failed
ConnectCreate(t) ==
    /\ pl.task[t].pc = "create"
    /\ \E ok \in BOOLEAN :
         IF ok
         THEN LET pool == Len(pl.created) + 1
                  made == [pl EXCEPT !.created = Append(@, "registered")]
              IN pl' = [insert_pool(made, pool) EXCEPT !.task[t].pc = "done",
                                                       !.task[t].pool = pool]
         ELSE pl' = [pl EXCEPT !.task[t].pc = "done"]
    /\ UNCHANGED <<execVars, commitVars, buildVars, identVars, qs, se, api, rg, pg, ed, dc, vl,
                   iv, ar>>

\* delete_connection: remove_pool after its has_pool test
DeleteRemove(t) ==
    /\ pl.task[t].pc = "remove"
    /\ pl' = [take_pool(pl) EXCEPT !.task[t] =
                IF pl.registered = <<>> THEN [@ EXCEPT !.pc = "forget"]
                ELSE [@ EXCEPT !.pc = "close", !.pool = pl.registered[1]]]
    /\ UNCHANGED <<execVars, commitVars, buildVars, identVars, qs, se, api, rg, pg, ed, dc, vl,
                   iv, ar>>

\* pool.close().await of disconnect_postgres and delete_connection
PoolClose(t) ==
    /\ pl.task[t].pc = "close"
    /\ pl' = [pl EXCEPT !.created[pl.task[t].pool] = "closed",
                        !.task[t].pc = IF pl.task[t].op = "delete_connection"
                                       THEN "forget" ELSE "done"]
    /\ UNCHANGED <<execVars, commitVars, buildVars, identVars, qs, se, api, rg, pg, ed, dc, vl,
                   iv, ar>>

\* delete_connection: the password and the stored row are deleted, or one of
\* the two fails and the command returns; then remove_config
DeleteForget(t) ==
    /\ pl.task[t].pc = "forget"
    /\ \E ok \in BOOLEAN :
         pl' = [pl EXCEPT !.config = IF ok THEN FALSE ELSE @, !.task[t].pc = "done"]
    /\ UNCHANGED <<execVars, commitVars, buildVars, identVars, qs, se, api, rg, pg, ed, dc, vl,
                   iv, ar>>

\* the caller has the result; save_connection may have stored the config again
PoolReturn(t) ==
    /\ pl.task[t].pc = "done"
    /\ \E saved \in BOOLEAN :
         pl' = [pl EXCEPT !.task[t] = IdlePoolTask, !.config = @ \/ saved]
    /\ UNCHANGED <<execVars, commitVars, buildVars, identVars, qs, se, api, rg, pg, ed, dc, vl,
                   iv, ar>>


\* ------------------------------------------------------------------- Spec
ExecInit ==
    /\ connections = {"c1"}
    /\ conns = [c \in PoolConns |-> FreeConn]
    /\ running_queries = <<>>
    /\ flags = <<>>
    /\ ex = [p \in Procs |-> IdleExec]
    /\ calls = 0
    /\ cn = IdleCancel
    /\ cancels = 0

CommitInit ==
    /\ table = InitialTable
    /\ txn = <<>>
    /\ cm = IdleCommit
    /\ commits = 0

BuildInit == bw = <<>>

IdentInit == idn = <<>>

FnInit ==
    /\ qs = <<>>
    /\ se = <<>>
    /\ api = ApiInit
    /\ rg = <<>>
    /\ pg = <<>>
    /\ ed = <<>>
    /\ dc = <<>>
    /\ vl = <<>>
    /\ iv = <<>>
    /\ ar = <<>>
    /\ pl = PoolsInit

Init == ExecInit /\ CommitInit /\ BuildInit /\ IdentInit /\ FnInit

Next ==
    \/ \E p \in Procs : ExecStart(p)
    \/ \E p \in Procs : ExecAcquire(p)
    \/ \E p \in Procs : ExecBackendPid(p)
    \/ \E p \in Procs : ExecSetSchema(p)
    \/ \E p \in Procs : ExecStreamNext(p)
    \/ \E p \in Procs : ExecReturn(p)
    \/ CancelStart
    \/ CancelGetPid
    \/ CancelMark
    \/ CancelAcquire
    \/ CancelSend
    \/ CancelReturn

Spec == Init /\ [][Next]_vars


\* ------------------------------------------------------------- SpecSerial
\* One execute_query at a time (an editor tab that awaits each call before the
\* next one), with cancel_query concurrent to it.
NextSerial ==
    \/ ExecStart(1)
    \/ ExecAcquire(1)
    \/ ExecBackendPid(1)
    \/ ExecSetSchema(1)
    \/ ExecStreamNext(1)
    \/ ExecReturn(1)
    \/ CancelStart
    \/ CancelGetPid
    \/ CancelMark
    \/ CancelAcquire
    \/ CancelSend
    \/ CancelReturn

SpecSerial == Init /\ [][NextSerial]_vars


\* ------------------------------------------------------------- SpecCommit
NextCommit ==
    \/ CommitStart
    \/ CommitBegin
    \/ CommitEdit
    \/ CommitCommit
    \/ CommitReturn

SpecCommit == Init /\ [][NextCommit]_vars


\* -------------------------------------------------------------- SpecBuild
NextBuild == BuildStatement

SpecBuild == Init /\ [][NextBuild]_vars

\* -------------------------------------------------------------- SpecIdent
NextIdent ==
    \/ DrawName
    \/ ValidateExecute
    \/ ValidateFetchMore
    \/ ValidateSql
    \/ ValidateIdentifier

SpecIdent == Init /\ [][NextIdent]_vars


\* -------------------------------------------------------------- SpecQuote
NextQuote == BuildSql

SpecQuote == Init /\ [][NextQuote]_vars


\* ----------------------------------------------------------- SpecSanitize
NextSanitize ==
    \/ ErrorRaised
    \/ SanitizeUrlStep
    \/ SanitizePasswordStep
    \/ SanitizeReturn

SpecSanitize == Init /\ [][NextSanitize]_vars


\* ---------------------------------------------------------------- SpecApi
NextApi ==
    \/ ApiStart
    \/ ApiRun
    \/ ApiReturn
    \/ Connect
    \/ Disconnect

SpecApi == Init /\ [][NextApi]_vars


\* ----------------------------------------------------------- SpecRegistry
NextRegistry ==
    \/ RegRegister
    \/ RegUnregister
    \/ RegMark

SpecRegistry == Init /\ [][NextRegistry]_vars


\* ------------------------------------------------------------- SpecPaging
NextPaging ==
    \/ PageExecute
    \/ PageExecuteAgain
    \/ PageFetchMore

SpecPaging == Init /\ [][NextPaging]_vars


\* ----------------------------------------------------------- SpecEditable
NextEditable == AnalyzeStatement

SpecEditable == Init /\ [][NextEditable]_vars


\* ------------------------------------------------------------- SpecDecode
NextDecode == DecodeRow

SpecDecode == Init /\ [][NextDecode]_vars


\* ----------------------------------------------------------- SpecValidate
NextValidate == ValidateText

SpecValidate == Init /\ [][NextValidate]_vars


\* ----------------------------------------------------------- SpecInterval
NextInterval == DecodeInterval

SpecInterval == Init /\ [][NextInterval]_vars


\* -------------------------------------------------------------- SpecArray
NextArray == ParseArray

SpecArray == Init /\ [][NextArray]_vars


\* -------------------------------------------------------------- SpecPools
NextPools ==
    \/ \E t \in PoolTasks : PoolCall(t)
    \/ \E t \in PoolTasks : ConnectCreate(t)
    \/ \E t \in PoolTasks : DeleteRemove(t)
    \/ \E t \in PoolTasks : PoolClose(t)
    \/ \E t \in PoolTasks : DeleteForget(t)
    \/ \E t \in PoolTasks : PoolReturn(t)

SpecPools == Init /\ [][NextPools]_vars


\* ================================================================ properties
Done(p) == ex[p].pc = "done"

\* C1: once execute_query has registered its query id, every return of the
\* call leaves the registry without the entry it registered under that id.
C1_UnregisteredOnEveryExit ==
    \A p \in Procs :
        (Done(p) /\ ex[p].registered) =>
            ~(/\ ex[p].query_id \in DOMAIN running_queries
              /\ running_queries[ex[p].query_id].cancelled = ex[p].flag)

\* C2: when the cancellation flag is already set as execute_query takes the
\* first item of its result stream (a row, an error or the end of the result),
\* the call returns the cancellation error with no rows and has unregistered
\* its query id exactly once.
C2_EarlyCancelYieldsCancelled ==
    \A p \in Procs :
        (Done(p) /\ ex[p].streamed /\ ex[p].earlyCancel) =>
            /\ ex[p].result.kind = "Cancelled"
            /\ ex[p].result.rows = <<>>
            /\ ex[p].unregs = 1

\* C3: a call that returns a result for limit N on a backend result of R rows
\* returns the first min(R, N) rows, row_count is their number, has_more is
\* true exactly when R > N, and row N + 1 is not among the rows returned.
C3_LimitAndHasMore ==
    \A p \in Procs :
        (Done(p) /\ ex[p].result.kind = "Ok") =>
            LET r == ex[p].result
                n == Min(ex[p].avail, ex[p].limit)
            IN /\ Len(r.rows) = n
               /\ Len(r.rows) <= ex[p].limit
               /\ r.rows = [k \in 1..n |-> k]
               /\ r.row_count = Len(r.rows)
               /\ r.has_more <=> (ex[p].avail > ex[p].limit)
               /\ \A k \in 1..Len(r.rows) : r.rows[k] # ex[p].limit + 1

\* a call returned a result although the backend had more rows than the limit
C3_Witness ==
    \E p \in Procs :
        /\ Done(p) /\ ex[p].result.kind = "Ok"
        /\ ex[p].limit > 0 /\ ex[p].avail > ex[p].limit /\ ex[p].result.has_more

\* C8: cancel_query's backend request does not depend on a free connection of
\* the query pool: while it is about to send there is a connection to send on,
\* even with every pool connection leased, and it never gives up for want of one.
C8_CancelNeedsNoPoolConnection ==
    /\ cn.pc = "acquire" => CancelCarriers # {}
    /\ cn.result # "PoolTimedOut"

\* C9: a schema override that fails validation is rejected before a connection
\* is leased and before any statement is sent; "sales-2024" is accepted and
\* "sales;drop" is not.
C9_InvalidSchemaBeforeConnection ==
    /\ ExecuteSchemaCheck(Sales2024) = "ok"
    /\ ExecuteSchemaCheck(SalesDrop) # "ok"
    /\ \A p \in Procs :
          (Done(p) /\ ex[p].result.kind = "InvalidSchema") =>
              ~ex[p].leased /\ ex[p].stmts = 0

\* ---------------------------------------------------------- commit engine
RECURSIVE SumAffected(_)
SumAffected(log) ==
    IF log = <<>> THEN 0 ELSE Head(log).affected + SumAffected(Tail(log))

Ops(log, op) == {k \in 1..Len(log) : log[k].op = op}
Statements(log) == {k \in 1..Len(log) : log[k].op \in {"UPDATE", "DELETE"}}
CommitDone == cm.pc = "done"
EditFailure == cm.errors # <<>>
\* BEGIN went through and no edit failed: the call is at, or past, its COMMIT
AllEditsSucceeded ==
    /\ CommitDone /\ ~EditFailure
    /\ Ops(cm.log, "BEGIN") # {} /\ cm.log[1].ok

\* C4: when an edit of the list fails, nothing any edit of the list did is
\* persisted (the table is as before the call) and the outcome is
\* success = false with rows_affected = 0.
C4_FailedCommitPersistsNothing ==
    (CommitDone /\ EditFailure) =>
        /\ table = cm.before
        /\ txn = <<>>
        /\ cm.result.kind = "Ok"
        /\ ~cm.result.success
        /\ cm.result.rows_affected = 0

\* the second edit failed after the first had changed a row
C4_Witness ==
    /\ CommitDone /\ EditFailure /\ cm.i = 2
    /\ \E k \in Statements(cm.log) : cm.log[k].ok /\ cm.log[k].affected > 0

\* C5: the edits run in the order submitted; at the first failing edit the
\* call sends ROLLBACK, runs no later edit and returns exactly one error; the
\* error list of an outcome is empty exactly when success is true.
C5_StopsAtFirstFailure ==
    /\ \A j, k \in Statements(cm.log) : j < k => cm.log[j].edit < cm.log[k].edit
    /\ \A k \in Statements(cm.log) : ~cm.log[k].ok => k = Len(cm.log) - 1
    /\ EditFailure =>
          /\ CommitDone
          /\ Len(cm.result.errors) = 1
          /\ Ops(cm.log, "ROLLBACK") = {Len(cm.log)}
          /\ Ops(cm.log, "COMMIT") = {}
          /\ \A k \in Statements(cm.log) : cm.log[k].edit <= cm.i
    /\ cm.result.kind = "Ok" => (cm.result.errors = <<>> <=> cm.result.success)

\* the first of two edits failed and the second never ran
C5_Witness ==
    /\ CommitDone /\ EditFailure /\ cm.i = 1 /\ cm.n = 2
    /\ Ops(cm.log, "ROLLBACK") # {}

\* C6 as claimed: when every edit succeeds the call sends exactly one COMMIT,
\* after the last statement and with no ROLLBACK, and returns success = true
\* with rows_affected the sum of the statements' counts.
C6_Claimed ==
    AllEditsSucceeded =>
        /\ Ops(cm.log, "COMMIT") = {Len(cm.log)}
        /\ Ops(cm.log, "ROLLBACK") = {}
        /\ cm.result.kind = "Ok" /\ cm.result.success
        /\ cm.result.rows_affected = SumAffected(cm.log)

\* C6 as amended: when every edit succeeds the call sends exactly one COMMIT,
\* after the last statement and with no ROLLBACK; when that COMMIT succeeds it
\* returns success = true with rows_affected the sum of the statements' counts
\* and no error, and when the COMMIT fails it returns the error of the COMMIT
\* and no outcome.
C6_CommitOnceAndSum ==
    AllEditsSucceeded =>
        /\ Ops(cm.log, "COMMIT") = {Len(cm.log)}
        /\ Ops(cm.log, "ROLLBACK") = {}
        /\ cm.i = cm.n
        /\ IF cm.log[Len(cm.log)].ok
           THEN /\ cm.result.kind = "Ok" /\ cm.result.success
                /\ cm.result.rows_affected = SumAffected(cm.log)
                /\ cm.result.errors = <<>>
           ELSE cm.result.kind = "CommitError"

\* two statements changed a row each and the call committed
C6_Witness ==
    /\ AllEditsSucceeded /\ cm.result.success
    /\ Cardinality(Statements(cm.log)) = 2
    /\ \A k \in Statements(cm.log) : cm.log[k].affected = 1
    /\ cm.result.rows_affected = 2

\* C7: the WHERE clause of every UPDATE and DELETE has one predicate per
\* primary-key column, in order, and compares with the value of the original
\* row: IS NULL for a null, else a parameter bound to that value; never the
\* value the edit's changes give the column.
C7_WhereFromOriginalRow ==
    (bw # <<>> /\ bw[1].built.stmt.kind \in {"UPDATE", "DELETE"}) =>
        LET pks == bw[1].primary_keys
            orig == bw[1].edit.original_row[1]
            stmt == bw[1].built.stmt
        IN /\ Len(stmt.where) = Len(pks)
           /\ \A k \in 1..Len(pks) :
                 LET part == stmt.where[k] IN
                 /\ part.col = pks[k]
                 /\ part.null <=> orig[pks[k]].kind = "null"
                 /\ ~part.null =>
                       /\ part.param \in 1..Len(stmt.params)
                       /\ stmt.params[part.param] = orig[pks[k]].text

\* an UPDATE whose changes give the primary key a new value
C7_Witness ==
    /\ bw # <<>> /\ bw[1].built.stmt.kind = "UPDATE"
    /\ bw[1].primary_keys = <<"id">>
    /\ bw[1].edit.original_row[1]["id"] = JNum("1")
    /\ "id" \in DOMAIN bw[1].edit.changes[1]
    /\ bw[1].edit.changes[1]["id"] = JNum("2")

\* ------------------------------------------------------------- validators
\* the names of letters, digits, underscore and hyphen, 1 to 63 characters long
AcceptedName(name) ==
    /\ \A c \in NameChars(name) : c \in AsciiLetters \cup AsciiDigits \cup {"_", "-"}
    /\ Len(name.head) + name.pad \in 1..63

\* C10: every entry point accepts a name exactly when it consists of ASCII
\* letters, digits, underscore and hyphen and is 1 to 63 characters long, so
\* all entry points accept the same names.
C10_SameNamesEverywhere ==
    idn # <<>> =>
        \A entry \in DOMAIN idn[1].verdict :
            idn[1].verdict[entry] # "" =>
                (idn[1].verdict[entry] = "ok" <=> AcceptedName(idn[1].name))

\* ------------------------------------------------- identifiers in SQL text
Sql(t) == [kind |-> "sql", text |-> <<t>>]
Ident(name) == [kind |-> "ident", text |-> name]

\* what the statement of a request is meant to say
Meant(r) ==
    LET target == <<Ident(r.schema_name), Sql("."), Ident(r.table_name)>>
        where == <<Sql(" WHERE "), Ident(r.pk),
                   Sql(IF r.pk_null THEN " IS NULL"
                       ELSE ParamText(IF r.kind = "update" /\ ~r.val_null THEN 2 ELSE 1))>>
    IN IF r.kind = "update"
       THEN <<Sql("UPDATE ")>> \o target
                \o <<Sql(" SET "), Ident(r.col),
                     Sql(IF r.val_null THEN " = NULL" ELSE ParamText(1))>> \o where
       ELSE <<Sql("DELETE FROM ")>> \o target \o where

\* C11: every identifier of a commit request reaches the backend as one quoted
\* identifier with the request's value: no identifier ends its own quoted form
\* and adds SQL text to the UPDATE or DELETE statement.
C11_IdentifiersQuoted ==
    qs # <<>> => Lex(qs[1].sql, 1) = Meant(qs[1].req)


\* ------------------------------------------------------------ error text
\* C12: no error text an exposed operation returns holds a credential the
\* driver error carried in URL form or in password= form, however many
\* occurrences the driver error has.
C12_NoCredentialReturned ==
    (se # <<>> /\ se[1].pc = "returned") =>
        \A k \in 1..Len(se[1].msg) : se[1].msg[k] # "secret"


\* ------------------------------------------------------------ pool lookup
\* C13: an operation called with a connection id that has no registered pool
\* returns the not-connected error and has registered no query, set no flag
\* and sent no statement; it is so after a disconnect as well as for an id
\* that was never connected, and only then is not-connected returned.
C13_NotConnectedWithoutPool ==
    LET t == api.task IN
    t.pc = "done" =>
        /\ t.connection_id \notin t.pools =>
              /\ t.result = "NotConnected"
              /\ ~t.registered /\ ~t.marked /\ t.stmts = 0
              /\ running_queries = t.before /\ flags = t.flagsBefore
        /\ t.result = "NotConnected" => t.connection_id \notin t.pools

\* an operation found no pool for an id that had been connected and was
\* disconnected, while a query stood registered
C13_Witness ==
    /\ api.task.pc = "done" /\ api.task.result = "NotConnected"
    /\ api.task.connection_id = "c1" /\ api.toggles > 0
    /\ api.task.name = "cancel_query" /\ api.task.query_id \in DOMAIN running_queries


\* --------------------------------------------------------------- registry
\* C14: mark_query_cancelled(q) returns true and sets the flag of q's entry
\* when the registry has one, returns false otherwise; either way the registry
\* keeps its entries as they are and every other flag its value; and no call of
\* any registry operation turns a set flag off again.
C14_MarkSetsOnlyItsFlag ==
    /\ [](rg # <<>> /\ rg[1].op = "mark_query_cancelled" =>
            LET q == rg[1].query_id
                b == rg[1].before
            IN /\ rg[1].ret <=> q \in DOMAIN b
               /\ running_queries = b
               /\ DOMAIN flags = DOMAIN rg[1].flagsBefore
               /\ q \in DOMAIN b => flags[b[q].cancelled]
               /\ \A f \in DOMAIN flags :
                     (q \notin DOMAIN b \/ f # b[q].cancelled) =>
                         flags[f] = rg[1].flagsBefore[f])
    /\ [][\A f \in DOMAIN flags : flags[f] => (f \in DOMAIN flags' /\ flags'[f])]_vars

\* a registered query was marked while another query stood registered unmarked
C14_Witness ==
    /\ rg # <<>> /\ rg[1].op = "mark_query_cancelled" /\ rg[1].ret
    /\ \E o \in DOMAIN running_queries :
          o # rg[1].query_id /\ ~flags[running_queries[o].cancelled]

\* C15: unregister_query(q) removes q's entry when there is one and changes
\* nothing when there is none, so a second call in a row changes nothing; the
\* entries of the other query ids stay as they are.
C15_UnregisterIdempotent ==
    (rg # <<>> /\ rg[1].op = "unregister_query") =>
        LET q == rg[1].query_id
            b == rg[1].before
        IN /\ q \notin DOMAIN running_queries
           /\ DOMAIN running_queries = DOMAIN b \ {q}
           /\ \A o \in DOMAIN running_queries : running_queries[o] = b[o]
           /\ q \notin DOMAIN b => running_queries = b
           /\ rg[1].repeat => running_queries = b
           /\ flags = rg[1].flagsBefore

\* the same id was unregistered twice in a row with another query registered
C15_Witness ==
    /\ rg # <<>> /\ rg[1].op = "unregister_query" /\ rg[1].repeat
    /\ running_queries # <<>>


\* ----------------------------------------------------------------- paging
RECURSIVE Flatten(_)
Flatten(pages) ==
    IF pages = <<>> THEN <<>> ELSE Head(pages).rows \o Flatten(Tail(pages))

\* page k (from 1) holds rows (k-1)N+1 .. min(R, kN) of the result, in order,
\* and says has_more exactly when R > kN
PagesInOrder ==
    LET R == Len(pg[1].result)
        N == pg[1].limit
    IN \A k \in 1..Len(pg[1].pages) :
          LET p == pg[1].pages[k] IN
          /\ p.rows = SubSeq(pg[1].result, (k - 1) * N + 1, Min(R, k * N))
          /\ p.row_count = Len(p.rows)
          /\ p.has_more <=> R > k * N

\* the pages read so far hold all rows of the result as soon as the last one
\* says there are no more, which it does after R + 1 pages at the latest
PagingComplete ==
    LET last == pg[1].pages[Len(pg[1].pages)] IN
    /\ ~last.has_more => Flatten(pg[1].pages) = pg[1].result
    /\ Len(pg[1].pages) > Len(pg[1].result) => ~last.has_more

\* C16 as claimed: for every limit N, paging with execute(limit = N) and
\* fetchMore(limit = N, offset = k * N) returns each of the R rows once and in
\* order, has_more true on every page but the last and false on the last.
C16_Claimed ==
    (pg # <<>> /\ pg[1].pages # <<>>) => PagesInOrder /\ PagingComplete

\* C16 as amended: the same for every limit N >= 1; with N = 0 every page is
\* empty and says has_more exactly when the result has a row.
C16_PagingReturnsEveryRowOnce ==
    (pg # <<>> /\ pg[1].pages # <<>>) =>
        /\ PagesInOrder
        /\ pg[1].limit >= 1 => PagingComplete
        /\ pg[1].limit = 0 =>
              \A k \in 1..Len(pg[1].pages) :
                 /\ pg[1].pages[k].rows = <<>>
                 /\ pg[1].pages[k].has_more <=> pg[1].result # <<>>

\* three rows read in pages of two: two rows and has_more, then one row and no more
C16_Witness ==
    /\ pg # <<>> /\ Len(pg[1].result) = 3 /\ pg[1].limit = 2
    /\ Len(pg[1].pages) = 2
    /\ Len(pg[1].pages[1].rows) = 2 /\ pg[1].pages[1].has_more
    /\ Len(pg[1].pages[2].rows) = 1 /\ ~pg[1].pages[2].has_more


\* ------------------------------------------------------------ editability
\* C17: a statement with a JOIN, a UNION, a GROUP BY, DISTINCT, a parenthesized
\* sub-select or a leading common-table expression is never found editable,
\* whatever its casing, spacing, line breaks and comments and whatever the table.
C17_ComplexNeverEditable ==
    (ed # <<>> /\ ed[1].shape \in ComplexShapes) => ~ed[1].verdict.is_editable

\* C18: is_editable comes with a non-empty primary_keys list, and a table
\* without primary-key column is found not editable, with a reason, a plain
\* single-table SELECT * included.
C18_EditableImpliesPrimaryKey ==
    ed # <<>> =>
        /\ ed[1].verdict.is_editable => ed[1].verdict.primary_keys # <<>>
        /\ (ed[1].verdict.kind = "Ok" /\ ed[1].lookup.primary_keys = <<>>) =>
              /\ ~ed[1].verdict.is_editable
              /\ ed[1].verdict.reason # <<>>

\* a plain SELECT * on a table without primary key, found not editable for that
C18_Witness ==
    /\ ed # <<>> /\ ed[1].shape = "plain" /\ ed[1].lookup.ok
    /\ ed[1].lookup.primary_keys = <<>>
    /\ ed[1].verdict.reason = <<"table has no primary key">>


LeadingWhitespaceChars(sql) == Len(sql) - Len(trim_start(sql))
\* 1 + the line breaks before the character at pos
LineOf(sql, pos) == 1 + Cardinality({i \in 1..pos - 1 : i <= Len(sql) /\ sql[i] = "\n"})
\* 1 + the characters between the last line break before pos and pos
ColumnOf(sql, pos) ==
    LET breaks == {i \in 1..pos - 1 : i <= Len(sql) /\ sql[i] = "\n"}
        last == IF breaks = {} THEN 0 ELSE CHOOSE i \in breaks : \A j \in breaks : j <= i
    IN pos - last
\* the backend reported a position in the statement part of the text it was sent
PositionReported ==
    /\ vl # <<>>
    /\ vl[1].result.kind = "Ok" /\ ~vl[1].result.valid
    /\ vl[1].outcome.raw > PrefixLen

\* C20: a position p the backend reports is given back as p minus the prefix
\* length plus the number of leading white-space characters of the caller's
\* text, with the line and column of that character in the caller's text.
C20_PositionTranslated ==
    PositionReported =>
        LET sql == vl[1].sql
            pos == vl[1].outcome.raw - PrefixLen + LeadingWhitespaceChars(sql)
        IN /\ vl[1].result.position = <<pos>>
           /\ vl[1].result.line = <<LineOf(sql, pos)>>
           /\ vl[1].result.column = <<ColumnOf(sql, pos)>>


\* --------------------------------------------------------------- interval
\* the whole years of a number of months and the months left over: the pair
\* (y, m) with months = 12 y + m, m short of a year and of the sign of months
YearsOf(months) ==
    CHOOSE y \in -MaxMonths..MaxMonths :
        \E m \in -11..11 : months = 12 * y + m /\ (months >= 0 => m >= 0) /\ (months <= 0 => m <= 0)
MonthsLeft(months) == months - 12 * YearsOf(months)
\* the words of a rendered interval without their plural, the clock as "time"
Unit(part) ==
    IF part.clock # <<>> THEN "time"
    ELSE IF part.word \in {"year", "years"} THEN "year"
    ELSE IF part.word \in {"mon", "mons"} THEN "mon"
    ELSE "day"
IsPresent(interval, unit) ==
    CASE unit = "year" -> YearsOf(interval.months) # 0
      [] unit = "mon" -> MonthsLeft(interval.months) # 0
      [] unit = "day" -> interval.days # 0
      [] unit = "time" -> interval.total_secs # 0 \/ interval.micros # 0
Present(interval) ==
    SelectSeq(<<"year", "mon", "day", "time">>, LAMBDA u : IsPresent(interval, u))

\* C21: an interval is rendered as its years, months left over, days and
\* clock time, in this order and each only when it is not zero, as "00:00:00"
\* when all are zero, and 14 months 3 days as "1 year 2 mons 3 days".
C21_IntervalRendered ==
    iv # <<>> =>
        LET v == iv[1].interval
            text == iv[1].text
        IN /\ Present(v) # <<>> =>
                /\ [k \in 1..Len(text) |-> Unit(text[k])] = Present(v)
                /\ \A k \in 1..Len(text) :
                      CASE Unit(text[k]) = "year" -> text[k].n = YearsOf(v.months)
                        [] Unit(text[k]) = "mon" -> text[k].n = MonthsLeft(v.months)
                        [] Unit(text[k]) = "day" -> text[k].n = v.days
                        [] Unit(text[k]) = "time" ->
                              /\ 3600 * text[k].clock[1] + 60 * text[k].clock[2]
                                    + text[k].clock[3] = v.total_secs
                              /\ Len(text[k].clock) = 4 <=> v.micros # 0
           /\ Present(v) = <<>> => text = <<[n |-> 0, word |-> "", clock |-> <<0, 0, 0>>]>>
           /\ (v.months = 14 /\ v.days = 3 /\ v.total_secs = 0 /\ v.micros = 0) =>
                 text = <<[n |-> 1, word |-> "year", clock |-> <<>>],
                          [n |-> 2, word |-> "mons", clock |-> <<>>],
                          [n |-> 3, word |-> "days", clock |-> <<>>]>>

\* 14 months, 3 days and no time have been rendered
C21_Witness ==
    /\ iv # <<>>
    /\ iv[1].interval = [months |-> 14, days |-> 3, total_secs |-> 0, micros |-> 0]
    /\ Len(iv[1].text) = 3


\* ------------------------------------------------------------- SET clause
\* the placeholder numbers of a clause, in the order they are written
Placeholders(parts) ==
    LET bound == SelectSeq(parts, LAMBDA part : ~part.null)
    IN [k \in 1..Len(bound) |-> bound[k].param]

\* C22: the SET clause of every UPDATE has one assignment per changed column,
\* = NULL without a parameter for a null target and = $i for any other; the
\* placeholders of SET and then WHERE are 1..k in order, k values are bound
\* and the i-th is the value of the column that $i stands for.
C22_SetPlaceholdersNumbered ==
    (bw # <<>> /\ bw[1].built.stmt.kind = "UPDATE") =>
        LET changes == bw[1].edit.changes[1]
            stmt == bw[1].built.stmt
            ph == Placeholders(stmt.set \o stmt.where)
        IN /\ Len(stmt.set) = Cardinality(DOMAIN changes)
           /\ {stmt.set[k].col : k \in 1..Len(stmt.set)} = DOMAIN changes
           /\ \A k \in 1..Len(stmt.set) :
                 LET part == stmt.set[k] IN
                 /\ part.null <=> is_null(changes[part.col])
                 /\ part.null => part.param = 0
                 /\ ~part.null =>
                       /\ part.param \in 1..Len(stmt.params)
                       /\ stmt.params[part.param] = json_value_to_sql_param(changes[part.col])
           /\ ph = [i \in 1..Len(stmt.params) |-> i]

\* an UPDATE that sets one column to NULL and one to a value and locates the
\* row by a key that is not null
C22_Witness ==
    /\ bw # <<>> /\ bw[1].built.stmt.kind = "UPDATE"
    /\ \E k \in 1..Len(bw[1].built.stmt.set) : bw[1].built.stmt.set[k].null
    /\ \E k \in 1..Len(bw[1].built.stmt.set) : bw[1].built.stmt.set[k].param = 1
    /\ \E k \in 1..Len(bw[1].built.stmt.where) : bw[1].built.stmt.where[k].param = 2


\* ----------------------------------------------------------- array parsing
\* what a token written without quotes looks like
LooksLike(text) ==
    IF text = <<"NULL">> THEN "null"
    ELSE IF /\ \A k \in DOMAIN text : text[k] \in {"12", "1.5"}
            /\ \A j, k \in DOMAIN text : (text[j] = "1.5" /\ text[k] = "1.5") => j = k
         THEN "number"
    ELSE IF text = <<"t">> THEN "bool"
    ELSE "string"

\* C23: an array body is split only at the commas outside its quoted
\* elements, so that n elements written give n elements read, also when a
\* quoted element holds commas or escaped quotes; a token without quotes that
\* is NULL, a number or t is read as null, a number or a boolean and any other
\* as a string.
C23_SplitsAtTopLevelCommas ==
    ar # <<>> =>
        /\ Len(ar[1].elements) = Len(ar[1].written)
        /\ \A k \in 1..Len(ar[1].written) :
              LET out == ElementOut(ar[1].written[k]) IN
              (k <= Len(ar[1].elements) /\ (ar[1].written[k].null \/ ~NeedsQuotes(out))) =>
                  ar[1].elements[k].kind = LooksLike(out)


\* ------------------------------------------------------------ termination
\* the password= values of a message that are not hidden yet
Unreplaced(msg) ==
    Cardinality({k \in 1..Len(msg) :
                    msg[k] = "password=" /\ (k = Len(msg) \/ msg[k + 1] # "[hidden]")})
InPasswordLoop == se # <<>> /\ se[1].pc = "password"

\* C24: the loop of sanitize_error ends on every message: it is left once no
\* password= value is left to replace, and every turn of it replaces one.
C24_SanitizeTerminates ==
    /\ []((InPasswordLoop /\ Unreplaced(se[1].msg) = 0) => ~ENABLED SanitizePasswordStep)
    /\ [][SanitizePasswordStep => Unreplaced(se'[1].msg) < Unreplaced(se[1].msg)]_vars


\* ---------------------------------------------------- transaction closed
\* C25: when commit_data_edits returns, and with it releases its connection,
\* every BEGIN that succeeded on it has been followed by a COMMIT or a
\* ROLLBACK that succeeded, whichever statement of the call failed.
C25_NoTransactionLeftOpen ==
    cm.pc = "done" =>
        \A b \in 1..Len(cm.log) :
            (cm.log[b].op = "BEGIN" /\ cm.log[b].ok) =>
                \E e \in b + 1..Len(cm.log) :
                    cm.log[e].op \in {"COMMIT", "ROLLBACK"} /\ cm.log[e].ok


\* ------------------------------------------------------- cancel's target
\* C26: the cancel request of cancel_query(q) interrupts only a backend whose
\* statement belongs to an execution registered under q when the request is
\* sent.
C26_CancelHitsOnlyItsQuery ==
    [][\A c \in PoolConns :
          (~conns[c].cancelReq /\ conns'[c].cancelReq) =>
              /\ conns[c].lessee \in Procs
              /\ ex[conns[c].lessee].registered
              /\ ex[conns[c].lessee].query_id = cn.query_id
              /\ get_query_backend_pid(running_queries, cn.query_id) = <<BackendPid(c)>>]_vars


\* ------------------------------------------------- registry entry's owner
\* an execution between its register_query and its unregister_query
InFlight(p) == ex[p].pc \in {"set_schema", "stream"}

\* C27: while an execution is in flight the registry entry under its query id
\* is there and holds its own cancellation flag and its own backend PID, also
\* when another execution uses the same query id.
C27_EntryBelongsToExecution ==
    \A p \in Procs :
        InFlight(p) =>
            /\ ex[p].query_id \in DOMAIN running_queries
            /\ running_queries[ex[p].query_id].cancelled = ex[p].flag
            /\ running_queries[ex[p].query_id].backend_pid = BackendPid(ex[p].conn)


\* ---------------------------------------------------------- pool lifecycle
\* no command on the connection id is under way
PoolsQuiet == \A t \in PoolTasks : pl.task[t].pc \in {"idle", "done"}

\* C28: whatever the interleaving of connect, disconnect and delete on one
\* connection id, once the commands are through every pool that create_pool
\* returned is the one registered under the id or has been closed, and at
\* most one is registered.
C28_PoolRegisteredOrClosed ==
    /\ PoolsQuiet => \A i \in DOMAIN pl.created : pl.created[i] \in {"registered", "closed"}
    /\ Cardinality({i \in DOMAIN pl.created : pl.created[i] = "registered"}) <= 1
    /\ \A i \in DOMAIN pl.created : pl.created[i] = "registered" <=> pl.registered = <<i>>


\* ------------------------------------------------------------ search path
\* C29: the statement of an execute_query call that was given no schema runs
\* under the default search path, whatever an earlier call set on the pooled
\* connection it is leased.
C29_SearchPathFromOwnSchema ==
    [][\A p \in Procs :
          (ex[p].pc = "stream" /\ ~ex[p].streamed /\ ex'[p].streamed /\ ex[p].schema = <<>>)
              => conns[ex[p].conn].search_path = DefaultPath]_vars


\* ------------------------------------------------------ one key per column
\* C30: a row object has one key for each column of the result and holds
\* every cell's value under its column's key, also when two columns of the
\* result have the same name.
C30_OneKeyPerColumn ==
    dc # <<>> =>
        /\ Cardinality(DOMAIN dc[1].object) = Len(dc[1].cells)
        /\ \A k \in 1..Len(dc[1].cells) :
              /\ dc[1].cells[k].name \in DOMAIN dc[1].object
              /\ dc[1].object[dc[1].cells[k].name] = dc[1].values[k]


====
